---- MODULE Spec2Model ----
(***************************************************************************)
(* The display-server adapter of leftwm (XCB backend, and the x11rb        *)
(* backend's window setup), as state machines over the adapter's fields.   *)
(*                                                                         *)
(* The X server and the x11rb library are the environment.  Every request  *)
(* the code sends either succeeds or fails; a `?` in the source is an      *)
(* early return at the first failing request, so an operation takes the    *)
(* name of the first request whose failure it propagates (`fail`), and a   *)
(* separate flag for every request whose result the source drops.  Replies *)
(* to property reads are inputs: the property is absent (value32() is      *)
(* None), or it holds a list of 32-bit values, possibly empty.             *)
(***************************************************************************)
EXTENDS Integers, Sequences, FiniteSets, TLC

VARIABLES
    managed_windows,       \* XCBWrap.managed_windows: Vec<xproto::Window>
    client_list,           \* _NET_CLIENT_LIST on the root window (server side)
    mode,                  \* XCBWrap.mode
    mode_origin,           \* XCBWrap.mode_origin
    pointer_grab,          \* whether the adapter holds the active pointer grab
    motion_event_limiter,  \* XCBWrap.motion_event_limiter
    focused_window,        \* XCBWrap.focused_window
    srv,                   \* the server-side facts one operation reads
    last                   \* what the last handler was given, did and returned

vars == <<managed_windows, client_list, mode, mode_origin, pointer_grab,
          motion_event_limiter, focused_window, srv, last>>

lifecycle_vars == <<managed_windows, client_list>>
mode_vars == <<mode, mode_origin, pointer_grab, motion_event_limiter>>

----------------------------------------------------------------------------
(* Bounds of the model. *)

NumWindows == 2        \* client windows are 1..NumWindows
MaxManaged == 2        \* cap on Len(managed_windows) and Len(client_list)

Root == 0              \* XCBWrap.root
Win == 1..NumWindows

----------------------------------------------------------------------------
(* Option<T>: <<>> is None, <<v>> is Some(v). *)

None == <<>>
Some(v) == <<v>>
IsSome(o) == o # <<>>

(* Vec helpers. *)
Contains(s, x) == \E i \in 1..Len(s) : s[i] = x
Retain(s, x) == SelectSeq(s, LAMBDA y : y # x)
Take(s, n) == SubSeq(s, 1, n)

(* WindowHandle: the XCB variant carries a native id; the test-only variant *)
(* does not name a window of this backend.                                  *)
XCBHandle(w) == [kind |-> "XCB", id |-> w]
MockHandle == [kind |-> "Mock", id |-> 1]
Handles == {XCBHandle(w) : w \in Win} \cup {MockHandle}

NoEvent == [k |-> "None"]

----------------------------------------------------------------------------
(* Window lifecycle: managed_windows and the published client list. *)

(* set_client_list: delete the property, then append every managed window. *)
(* `fail` names the failing request; with "append_property" failing, the   *)
(* first k appends had succeeded.                                           *)
set_client_list(mw, cl, fail, k) ==
    IF fail = "delete_property" THEN [client_list |-> cl, ok |-> FALSE]
    ELSE IF fail = "append_property" /\ k < Len(mw)
         THEN [client_list |-> Take(mw, k), ok |-> FALSE]
    ELSE [client_list |-> mw, ok |-> TRUE]

TeardownGrabbed == <<"grab_server", "ungrab_buttons", "set_wm_states", "sync", "ungrab_server">>

(* The requests of a `?` chain that were sent: all of them, or those up to *)
(* and including the failing one.                                           *)
RECURSIVE Sent(_, _)
Sent(chain, fail) ==
    IF chain = <<>> THEN <<>>
    ELSE IF Head(chain) = fail THEN <<fail>>
    ELSE <<Head(chain)>> \o Sent(Tail(chain), fail)

(* teardown_managed_window(h, destroyed).  The result of set_client_list is *)
(* dropped: the call returns Ok whatever became of the republish.           *)
teardown_managed_window(mw, cl, h, destroyed, fail, k) ==
    IF h.kind # "XCB"
    THEN [managed |-> mw, client_list |-> cl, res |-> "Ok", reqs |-> <<>>]
    ELSE LET kept == Retain(mw, h.id) IN
         IF ~destroyed /\ Contains(TeardownGrabbed, fail)
         THEN [managed |-> kept, client_list |-> cl, res |-> "Err",
               reqs |-> Sent(TeardownGrabbed, fail)]
         ELSE LET pub == set_client_list(kept, cl, fail, k) IN
              [managed |-> kept, client_list |-> pub.client_list, res |-> "Ok",
               reqs |-> (IF destroyed THEN <<>> ELSE TeardownGrabbed)
                        \o <<"set_client_list">>]

(* force_unmapped(window). *)
force_unmapped(mw, cl, w, fail, k) ==
    IF Contains(mw, w)
    THEN LET kept == Retain(mw, w)
             pub == set_client_list(kept, cl, fail, k) IN
         [managed |-> kept, client_list |-> pub.client_list,
          res |-> IF pub.ok THEN "Ok" ELSE "Err"]
    ELSE [managed |-> mw, client_list |-> cl, res |-> "Ok"]

(* setup_managed_window(h, floating, follow_mouse), lines 101-124: the     *)
(* window is pushed after the event subscription and before the map        *)
(* request; the append to the client list drops its result.  Lines 126-166 *)
(* (strut report, border, pointer warp, click grabs) touch neither the     *)
(* managed set nor the client list: `tail` is their result.                *)
SetupManagedChain == <<"subscribe", "map_window", "get_window_states_atoms",
                       "set_window_states_atoms", "set_wm_states">>
SetupManagedTails == {"Ok", "WindowChange", "Err", "Panic"}

setup_managed_window(mw, cl, h, fail, append_ok, tail) ==
    IF h.kind # "XCB"
    THEN [managed |-> mw, client_list |-> cl, res |-> "Ok", event |-> NoEvent]
    ELSE IF fail = "subscribe"
    THEN [managed |-> mw, client_list |-> cl, res |-> "Err", event |-> NoEvent]
    ELSE LET pushed == Append(mw, h.id) IN
         IF fail = "map_window"
         THEN [managed |-> pushed, client_list |-> cl, res |-> "Err", event |-> NoEvent]
         ELSE LET cl2 == IF append_ok THEN Append(cl, h.id) ELSE cl IN
              IF Contains(SetupManagedChain, fail)
              THEN [managed |-> pushed, client_list |-> cl2, res |-> "Err",
                    event |-> NoEvent]
              ELSE [managed |-> pushed, client_list |-> cl2,
                    res |-> IF tail = "WindowChange" THEN "Ok" ELSE tail,
                    event |-> IF tail = "WindowChange"
                              THEN [k |-> "WindowChange", h |-> h] ELSE NoEvent]

(* check_xcb_error!(call, None): an Err is logged and becomes "no event". *)
check_xcb_error(res, event) == IF res = "Ok" THEN event ELSE NoEvent

(* from_unmap_event for window w; sent_event tells a client-sent unmap.    *)
(* The WM_STATE write of the non-synthetic branch drops its result.        *)
from_unmap_event(mw, cl, w, sent_event, fail, k) ==
    IF Contains(mw, w)
    THEN IF sent_event
         THEN LET td == teardown_managed_window(mw, cl, XCBHandle(w), FALSE, fail, k) IN
              [managed |-> td.managed, client_list |-> td.client_list,
               res |-> td.res, reqs |-> td.reqs,
               td |-> <<XCBHandle(w), FALSE>>,
               event |-> check_xcb_error(td.res, [k |-> "WindowDestroy", h |-> XCBHandle(w)])]
         ELSE [managed |-> mw, client_list |-> cl, res |-> "Ok",
               reqs |-> <<"set_wm_states">>, td |-> <<>>, event |-> NoEvent]
    ELSE [managed |-> mw, client_list |-> cl, res |-> "Ok", reqs |-> <<>>,
          td |-> <<>>, event |-> NoEvent]

(* from_destroy_notify for window w. *)
from_destroy_notify(mw, cl, w, fail, k) ==
    IF Contains(mw, w)
    THEN LET td == teardown_managed_window(mw, cl, XCBHandle(w), TRUE, fail, k) IN
         [managed |-> td.managed, client_list |-> td.client_list,
          res |-> td.res, reqs |-> td.reqs,
          td |-> <<XCBHandle(w), TRUE>>,
          event |-> check_xcb_error(td.res, [k |-> "WindowDestroy", h |-> XCBHandle(w)])]
    ELSE [managed |-> mw, client_list |-> cl, res |-> "Ok", reqs |-> <<>>,
          td |-> <<>>, event |-> NoEvent]

(* The pass get_next_events makes over the events it collected: every      *)
(* WindowDestroy of an XCB handle is followed by force_unmapped.           *)
forced_unmap_pass(r, fail, k) ==
    IF r.event.k = "WindowDestroy" /\ r.event.h.kind = "XCB"
    THEN LET fu == force_unmapped(r.managed, r.client_list, r.event.h.id, fail, k) IN
         [r EXCEPT !.managed = fu.managed, !.client_list = fu.client_list]
    ELSE r

----------------------------------------------------------------------------
(* Specification of the window lifecycle. *)

ModeNormal == [k |-> "Normal"]
NoSrv == [k |-> "unused"]

TeardownFails == {"none", "grab_server", "ungrab_buttons", "set_wm_states", "sync",
                  "ungrab_server", "delete_property", "append_property"}
PublishFails == {"none", "delete_property", "append_property"}
SetupManagedFails == {"none", "subscribe", "map_window", "get_window_states_atoms",
                      "set_window_states_atoms", "set_wm_states"}

Init ==
    /\ managed_windows = <<>>
    /\ client_list = <<>>
    /\ mode = ModeNormal
    /\ mode_origin = <<0, 0>>
    /\ pointer_grab = FALSE
    /\ motion_event_limiter = 0
    /\ focused_window = Root
    /\ srv = NoSrv
    /\ last = [op |-> "new", h |-> MockHandle, res |-> "Ok", event |-> NoEvent,
               td |-> <<>>, reqs |-> <<>>]

(* DisplayAction::AddedWindow(h, floating, follow_mouse). *)
AddedWindow(h) ==
    /\ last.res # "Panic"
    /\ Len(managed_windows) < MaxManaged
    /\ Len(client_list) < MaxManaged
    /\ \E fail \in SetupManagedFails, append_ok \in BOOLEAN, tail \in SetupManagedTails :
         LET r == setup_managed_window(managed_windows, client_list, h, fail,
                                       append_ok, tail) IN
         /\ managed_windows' = r.managed
         /\ client_list' = r.client_list
         /\ last' = [op |-> "AddedWindow", h |-> h, res |-> r.res,
                     event |-> check_xcb_error(r.res, r.event),
                     td |-> <<>>, reqs |-> <<>>]
    /\ UNCHANGED <<mode_vars, srv, focused_window>>

(* DisplayAction::DestroyedWindow(h). *)
DestroyedWindow(h) ==
    /\ last.res # "Panic"
    /\ \E fail \in PublishFails, k \in 0..MaxManaged :
         LET r == teardown_managed_window(managed_windows, client_list, h, TRUE,
                                          fail, k) IN
         /\ managed_windows' = r.managed
         /\ client_list' = r.client_list
         /\ last' = [op |-> "DestroyedWindow", h |-> h, res |-> r.res,
                     event |-> NoEvent, td |-> <<h, TRUE>>, reqs |-> r.reqs]
    /\ UNCHANGED <<mode_vars, srv, focused_window>>

(* get_next_events on a queue that holds one DestroyNotify for w. *)
DestroyNotify(w) ==
    /\ last.res # "Panic"
    /\ \E fail \in PublishFails, k \in 0..MaxManaged :
         LET r == forced_unmap_pass(
                      from_destroy_notify(managed_windows, client_list, w, fail, k),
                      fail, k) IN
         /\ managed_windows' = r.managed
         /\ client_list' = r.client_list
         /\ last' = [op |-> "DestroyNotify", h |-> XCBHandle(w), res |-> r.res,
                     event |-> r.event, td |-> r.td, reqs |-> r.reqs]
    /\ UNCHANGED <<mode_vars, srv, focused_window>>

(* get_next_events on a queue that holds one UnmapNotify for w. *)
UnmapNotify(w) ==
    /\ last.res # "Panic"
    /\ \E sent_event \in BOOLEAN, fail \in TeardownFails, k \in 0..MaxManaged :
         LET r == forced_unmap_pass(
                      from_unmap_event(managed_windows, client_list, w, sent_event,
                                       fail, k),
                      fail, k) IN
         /\ managed_windows' = r.managed
         /\ client_list' = r.client_list
         /\ last' = [op |-> IF sent_event THEN "UnmapNotifySent" ELSE "UnmapNotify",
                     h |-> XCBHandle(w), res |-> r.res,
                     event |-> r.event, td |-> r.td, reqs |-> r.reqs]
    /\ UNCHANGED <<mode_vars, srv, focused_window>>

Next ==
    \/ \E h \in Handles : AddedWindow(h)
    \/ \E h \in Handles : DestroyedWindow(h)
    \/ \E w \in Win : DestroyNotify(w)
    \/ \E w \in Win : UnmapNotify(w)

Spec == Init /\ [][Next]_vars

(* C3: teardown is idempotent -- when a handler calls                      *)
(* teardown_managed_window(h, destroyed) and the very next handler calls   *)
(* it again with the same handle and flag, the second call leaves the      *)
(* managed set and the published _NET_CLIENT_LIST as the first left them.  *)
C3_TeardownIdempotent ==
    [][(last.td # <<>> /\ last'.td = last.td)
         => (managed_windows' = managed_windows /\ client_list' = client_list)]_vars

(* C11: after every completed setup-managed (AddedWindow), teardown        *)
(* (DestroyedWindow, DestroyNotify, client-sent UnmapNotify) or forced     *)
(* unmap, whether or not one of its requests failed, the published         *)
(* _NET_CLIENT_LIST equals the managed set, element for element.           *)
C11_ClientListIsManagedSet ==
    last.op \in {"AddedWindow", "DestroyedWindow", "DestroyNotify", "UnmapNotifySent"}
      => client_list = managed_windows

(* C13: an UnmapNotify for a managed window removes it and emits           *)
(* WindowDestroy when a client sent it; otherwise the window stays         *)
(* managed, its WM_STATE is written and no event is emitted; for an        *)
(* unmanaged window nothing changes and nothing is emitted.                *)
C13_UnmapNotify ==
    [][last'.op \in {"UnmapNotifySent", "UnmapNotify"} /\ last' # last
         => LET w == last'.h.id IN
            IF ~Contains(managed_windows, w)
            THEN /\ managed_windows' = managed_windows
                 /\ last'.event = NoEvent /\ last'.reqs = <<>>
            ELSE IF last'.op = "UnmapNotifySent"
            THEN /\ ~Contains(managed_windows', w)
                 /\ last'.event = [k |-> "WindowDestroy", h |-> last'.h]
            ELSE /\ managed_windows' = managed_windows
                 /\ last'.reqs = <<"set_wm_states">>
                 /\ last'.event = NoEvent]_vars

(* C22: an AddedWindow one of whose requests fails leaves the managed set  *)
(* as it was before the action.                                            *)
C22_FailedSetupIsNoOp ==
    [][(last'.op = "AddedWindow" /\ last'.res = "Err")
         => managed_windows' = managed_windows]_vars

(* C28: a handler that took the server grab (it went on after its         *)
(* grab_server request) also sent ungrab_server before it returned,        *)
(* whichever request in between failed.                                    *)
C28_ServerGrabReleased ==
    (Len(last.reqs) > 1 /\ last.reqs[1] = "grab_server")
      => Contains(last.reqs, "ungrab_server")

(* C37: the managed set never holds the same window id twice.             *)
C37_ManagedSetHasNoDuplicate ==
    \A i, j \in 1..Len(managed_windows) :
       i # j => managed_windows[i] # managed_windows[j]

(* C10: the managed set changes only by a successful AddedWindow, which   *)
(* appends its window, or by a teardown (DestroyedWindow, DestroyNotify,   *)
(* client-sent UnmapNotify) or forced unmap, which removes its window.     *)
C10_ManagedChangesOnlyByLifecycle ==
    [][managed_windows' # managed_windows =>
         \/ /\ last'.op = "AddedWindow"
            /\ last'.res = "Ok"
            /\ managed_windows' = Append(managed_windows, last'.h.id)
         \/ /\ last'.op \in {"DestroyedWindow", "DestroyNotify", "UnmapNotifySent"}
            /\ managed_windows' = Retain(managed_windows, last'.h.id)]_vars

----------------------------------------------------------------------------
(* Window setup (XCB backend): what setup_window reads and builds.         *)
(*                                                                         *)
(* A property reply is an Option of a list: None when the property is      *)
(* absent, Some(list) when it is set, the list possibly empty.             *)

Ok(v) == [res |-> "Ok", v |-> v]
Err == [res |-> "Err"]
Panic == [res |-> "Panic"]

(* get_window_type: `?` on the request, Err on an absent property, index   *)
(* 0 of the list, then the match on the atom.                              *)
get_window_type(reply, failed) ==
    IF failed \/ reply = None THEN Err
    ELSE IF reply[1] = <<>> THEN Panic
    ELSE LET atom == reply[1][1] IN
         Ok(CASE atom = "_NET_WM_WINDOW_TYPE_DESKTOP" -> "Desktop"
              [] atom = "_NET_WM_WINDOW_TYPE_DOCK" -> "Dock"
              [] atom = "_NET_WM_WINDOW_TYPE_TOOLBAR" -> "Toolbar"
              [] atom = "_NET_WM_WINDOW_TYPE_MENU" -> "Menu"
              [] atom = "_NET_WM_WINDOW_TYPE_UTILITY" -> "Utility"
              [] atom = "_NET_WM_WINDOW_TYPE_SPLASH" -> "Splash"
              [] atom = "_NET_WM_WINDOW_TYPE_DIALOG" -> "Dialog"
              [] OTHER -> "Normal")

(* get_window_pid: Err on an absent property, index 0 of the list. *)
get_window_pid(reply, failed) ==
    IF failed \/ reply = None THEN Err
    ELSE IF reply[1] = <<>> THEN Panic
    ELSE Ok(reply[1][1])

(* get_window_actions_atoms and get_window_states_atoms: Err on an absent  *)
(* property, the list otherwise.                                           *)
get_window_actions_atoms(reply, failed) ==
    IF failed \/ reply = None THEN Err ELSE Ok(reply[1])

get_window_states_atoms(reply, failed) ==
    IF failed \/ reply = None THEN Err ELSE Ok(reply[1])

(* get_transient_for: None on an absent property, index 0 of the list. *)
get_transient_for(reply, failed) ==
    IF failed THEN Err
    ELSE IF reply = None THEN Ok(None)
    ELSE IF reply[1] = <<>> THEN Panic
    ELSE Ok(Some(reply[1][1]))

(* Option<i32> under std::cmp::max: None is below every Some. *)
MaxOpt(a, b) ==
    IF a = None THEN b
    ELSE IF b = None THEN a
    ELSE IF a[1] >= b[1] THEN a ELSE b

(* get_hint_sizing_as_xyhw for hints that carry a minimum and a maximum    *)
(* size (no size, increment or position): max_size and then min_size are   *)
(* written to w and h; minw, minh, maxw, maxh keep their default.          *)
get_hint_sizing_as_xyhw(hint, failed) ==
    IF failed THEN Err
    ELSE LET d == [w |-> None, h |-> None, minw |-> None, minh |-> None,
                   maxw |-> None, maxh |-> None]
             a == IF hint.max_size # None
                  THEN [d EXCEPT !.w = Some(hint.max_size[1][1]),
                                 !.h = Some(hint.max_size[1][2])]
                  ELSE d
             b == IF hint.min_size # None
                  THEN [a EXCEPT !.w = Some(hint.min_size[1][1]),
                                 !.h = Some(hint.min_size[1][2])]
                  ELSE a
             c == [b EXCEPT !.w = MaxOpt(b.w, b.minw), !.h = MaxOpt(b.h, b.minh)]
         IN  Ok([c EXCEPT !.w = IF c.w = Some(0) THEN None ELSE c.w,
                          !.h = IF c.h = Some(0) THEN None ELSE c.h])

(* The match of get_window_states on one atom of the list. *)
WindowStateOf(atom) ==
    CASE atom = "_NET_WM_STATE_MODAL" -> "Modal"
      [] atom = "_NET_WM_STATE_STICKY" -> "Sticky"
      [] atom = "_NET_WM_STATE_MAXIMIZED_VERT" -> "MaximizedVert"
      [] atom = "_NET_WM_STATE_MAXIMIZED_HORZ" -> "MaximizedHorz"
      [] atom = "_NET_WM_STATE_SHADED" -> "Shaded"
      [] atom = "_NET_WM_STATE_SKIP_TASKBAR" -> "SkipTaskbar"
      [] atom = "_NET_WM_STATE_SKIP_PAGER" -> "SkipPager"
      [] atom = "_NET_WM_STATE_HIDDEN" -> "Hidden"
      [] atom = "_NET_WM_STATE_FULLSCREEN" -> "Fullscreen"
      [] atom = "_NET_WM_STATE_ABOVE" -> "Above"
      [] atom = "_NET_WM_STATE_BELOW" -> "Below"
      [] OTHER -> "Modal"

(* get_window_states: the atom list, each atom mapped by the match. *)
get_window_states(reply, failed) ==
    LET atoms == get_window_states_atoms(reply, failed) IN
    IF atoms.res # "Ok" THEN atoms
    ELSE Ok([i \in 1..Len(atoms.v) |-> WindowStateOf(atoms.v[i])])

(* The resizability match of setup_window, lines 56-71. *)
can_resize_of(type, hint, can_resize) ==
    IF /\ type = "Splash"
       /\ hint.minw # None /\ hint.minh # None
       /\ hint.maxw # None /\ hint.maxh # None
    THEN can_resize \/ hint.minw[1] # hint.maxw[1] \/ hint.minh[1] # hint.maxh[1]
    ELSE TRUE

(* The guard of setup_window, line 19: the early return that yields no    *)
(* event.                                                                  *)
setup_window_skips(override_redirect, managed) ==
    ~override_redirect \/ managed

(* setup_window(window) against the server-side description s of the      *)
(* window.  s.fail names the request that fails, if one does; the `?`      *)
(* chain returns at the first read that fails, and an index into an empty  *)
(* list aborts.  The record keeps the fields the claims speak about.       *)
setup_window(mw, s) ==
    LET failed(name) == s.fail = name
        pid == get_window_pid(s.pid, failed("get_window_pid"))
        type == get_window_type(s.wtype, failed("get_window_type"))
        states == get_window_states(s.states, failed("get_window_states"))
        actions == get_window_actions_atoms(s.actions, failed("get_window_actions_atoms"))
        trans == get_transient_for(s.trans, failed("get_transient_for"))
        sizing_hint == get_hint_sizing_as_xyhw(s.hint, failed("get_hint_sizing"))
    IN
    IF failed("get_window_attrs") \/ failed("get_window_geometry")
    THEN [res |-> "Err", event |-> NoEvent]
    ELSE IF setup_window_skips(s.override_redirect, Contains(mw, s.w))
    THEN [res |-> "Ok", event |-> NoEvent]
    ELSE IF failed("get_window_name") \/ failed("get_window_class")
    THEN [res |-> "Err", event |-> NoEvent]
    ELSE IF pid.res # "Ok" THEN [res |-> pid.res, event |-> NoEvent]
    ELSE IF type.res # "Ok" THEN [res |-> type.res, event |-> NoEvent]
    ELSE IF states.res # "Ok" THEN [res |-> states.res, event |-> NoEvent]
    ELSE IF actions.res # "Ok" THEN [res |-> actions.res, event |-> NoEvent]
    ELSE IF trans.res # "Ok" THEN [res |-> trans.res, event |-> NoEvent]
    ELSE IF sizing_hint.res # "Ok" THEN [res |-> sizing_hint.res, event |-> NoEvent]
    ELSE IF failed("get_wmhints") THEN [res |-> "Err", event |-> NoEvent]
    ELSE LET can_resize == Contains(actions.v, "_NET_WM_ACTION_RESIZE")
             input == IF s.input = None THEN TRUE ELSE s.input[1]
         IN  [res |-> "Ok",
              event |-> [k |-> "WindowCreate",
                         window |-> [handle |-> XCBHandle(s.w),
                                     type |-> type.v,
                                     states |-> states.v,
                                     transient |-> trans.v,
                                     can_resize |-> can_resize_of(type.v, sizing_hint.v,
                                                                  can_resize),
                                     never_focus |-> ~input]]]

(* from_map_request: setup_window under check_xcb_error!. *)
from_map_request(mw, s) ==
    LET r == setup_window(mw, s) IN
    [res |-> r.res, event |-> IF r.res = "Ok" THEN r.event ELSE NoEvent]

----------------------------------------------------------------------------
(* Specification of window setup: a client window with its attributes and  *)
(* properties asks to be mapped.                                           *)

SetupRequests == {"get_window_attrs", "get_window_geometry", "get_window_name",
                  "get_window_class", "get_window_pid", "get_window_type",
                  "get_window_states", "get_window_actions_atoms",
                  "get_transient_for", "get_hint_sizing", "get_wmhints"}

TypeAtoms == {"_NET_WM_WINDOW_TYPE_SPLASH", "_NET_WM_WINDOW_TYPE_DIALOG",
              "_NET_WM_WINDOW_TYPE_DOCK", "_NET_WM_WINDOW_TYPE_NORMAL"}

(* Windows whose every property is set and whose every read succeeds. *)
WellFormedWindows ==
    [w : Win,
     override_redirect : BOOLEAN,
     wtype : {Some(<<a>>) : a \in TypeAtoms},
     actions : {Some(<<>>), Some(<<"_NET_WM_ACTION_RESIZE">>)},
     pid : {Some(<<1>>)},
     trans : {None},
     states : {Some(<<"_NET_WM_STATE_FULLSCREEN">>)},
     hint : [min_size : {None, Some(<<100, 50>>), Some(<<200, 50>>)},
             max_size : {None, Some(<<100, 50>>)}],
     input : {None, Some(TRUE), Some(FALSE)},
     fail : {"none"}]

(* The same windows with one request failing, one property absent or      *)
(* empty, or a transient parent.                                           *)
Variants(b) ==
    {b}
    \cup {[b EXCEPT !.fail = f] : f \in SetupRequests}
    \cup {[b EXCEPT !.wtype = None], [b EXCEPT !.wtype = Some(<<>>)],
          [b EXCEPT !.actions = None], [b EXCEPT !.states = None],
          [b EXCEPT !.pid = None], [b EXCEPT !.pid = Some(<<>>)],
          [b EXCEPT !.trans = Some(<<>>)], [b EXCEPT !.trans = Some(<<Root>>)]}

SetupWindows == UNION {Variants(b) : b \in WellFormedWindows}

InitSetup ==
    /\ managed_windows \in {<<>>} \cup {<<w>> : w \in Win}
    /\ client_list = managed_windows
    /\ mode = ModeNormal
    /\ mode_origin = <<0, 0>>
    /\ pointer_grab = FALSE
    /\ motion_event_limiter = 0
    /\ focused_window = Root
    /\ srv \in SetupWindows
    /\ last = [op |-> "new", res |-> "Ok", event |-> NoEvent]

(* A direct call of setup_window(srv.w). *)
SetupWindow ==
    /\ last.res # "Panic"
    /\ LET r == setup_window(managed_windows, srv) IN
       last' = [op |-> "setup_window", res |-> r.res, event |-> r.event]
    /\ UNCHANGED <<lifecycle_vars, mode_vars, srv, focused_window>>

(* get_next_events on a queue that holds one MapRequest for srv.w. *)
MapRequest ==
    /\ last.res # "Panic"
    /\ LET r == from_map_request(managed_windows, srv) IN
       last' = [op |-> "MapRequest", res |-> r.res, event |-> r.event]
    /\ UNCHANGED <<lifecycle_vars, mode_vars, srv, focused_window>>

NextSetup == SetupWindow \/ MapRequest

SpecSetup == InitSetup /\ [][NextSetup]_vars

(* What the server holds for the window the last call was about. *)
SetupCalled == last.op \in {"setup_window", "MapRequest"}
SrvManaged == Contains(managed_windows, srv.w)
SrvReadsSucceed ==
    /\ srv.fail = "none"
    /\ srv.wtype # None /\ srv.wtype # Some(<<>>)
    /\ srv.actions # None /\ srv.states # None
    /\ srv.pid # None /\ srv.pid # Some(<<>>)
    /\ srv.trans # Some(<<>>)
SrvType ==
    IF srv.wtype = Some(<<"_NET_WM_WINDOW_TYPE_SPLASH">>) THEN "Splash"
    ELSE IF srv.wtype = Some(<<"_NET_WM_WINDOW_TYPE_DIALOG">>) THEN "Dialog"
    ELSE IF srv.wtype = Some(<<"_NET_WM_WINDOW_TYPE_DOCK">>) THEN "Dock"
    ELSE "Normal"

(* C1: setup_window yields no WindowCreate for a window whose             *)
(* override-redirect attribute is set, nor for a window that is already    *)
(* in the managed set.                                                     *)
C1_NoCreateForOverrideRedirectOrManaged ==
    (SetupCalled /\ (srv.override_redirect \/ SrvManaged))
        => last.event.k # "WindowCreate"

(* C2: a MapRequest for a window that is not managed and not               *)
(* override-redirect, all of whose property reads succeed, yields the      *)
(* WindowCreate event of that window.                                      *)
C2_MapRequestCreates ==
    (last.op = "MapRequest" /\ ~srv.override_redirect /\ ~SrvManaged /\ SrvReadsSucceed)
        => (last.event.k = "WindowCreate"
            /\ last.event.window.handle = XCBHandle(srv.w))

(* C8: in the window record built by setup_window, can_resize is false    *)
(* exactly when the window is a Splash whose minimum and maximum size      *)
(* hints are both present and equal and whose action list lacks the        *)
(* resize action.                                                          *)
C8_CanResize ==
    (SetupCalled /\ last.event.k = "WindowCreate")
        => (last.event.window.can_resize
              <=> ~(/\ SrvType = "Splash"
                    /\ srv.hint.min_size # None
                    /\ srv.hint.max_size # None
                    /\ srv.hint.min_size = srv.hint.max_size
                    /\ ~Contains(srv.actions[1], "_NET_WM_ACTION_RESIZE")))

(* C21: when one of the property queries of setup_window fails for a      *)
(* window that passes its guard, setup_window still returns the            *)
(* WindowCreate event for that window.                                     *)
C21_QueryFailureDegrades ==
    (/\ last.op \in {"setup_window", "MapRequest"}
     /\ ~setup_window_skips(srv.override_redirect, Contains(managed_windows, srv.w))
     /\ srv.fail \in SetupRequests \ {"get_window_attrs", "get_window_geometry"})
      => /\ last.res = "Ok"
         /\ last.event.k = "WindowCreate"
         /\ last.event.window.handle = XCBHandle(srv.w)

(* C23: get_window_type returns Normal for a window without a             *)
(* _NET_WM_WINDOW_TYPE property or with one that names none of the known   *)
(* types, and the matching type otherwise; an absent property is never an  *)
(* error.  Seen through a setup_window all of whose other reads succeed:   *)
(* it returns WindowCreate with that type.                                 *)
C23_WindowTypeDefaultsToNormal ==
    (/\ last.op = "setup_window"
     /\ ~setup_window_skips(srv.override_redirect, Contains(managed_windows, srv.w))
     /\ srv.fail = "none"
     /\ srv.pid = Some(<<1>>) /\ srv.states # None /\ srv.actions # None
     /\ srv.trans # Some(<<>>))
      => LET type == IF srv.wtype = Some(<<"_NET_WM_WINDOW_TYPE_SPLASH">>) THEN "Splash"
                     ELSE IF srv.wtype = Some(<<"_NET_WM_WINDOW_TYPE_DIALOG">>) THEN "Dialog"
                     ELSE IF srv.wtype = Some(<<"_NET_WM_WINDOW_TYPE_DOCK">>) THEN "Dock"
                     ELSE "Normal"
         IN  /\ last.res = "Ok"
             /\ last.event.k = "WindowCreate"
             /\ last.event.window.type = type

----------------------------------------------------------------------------
(* The interaction mode machine: set_mode, motion and button release.      *)

MaxTime == 4           \* event timestamps are 0..MaxTime

Points == {<<0, 0>>, <<15, 10>>, <<20, 30>>}
RefreshRates == {0, 1000}

Mode(k, h) == [k |-> k, h |-> h]
get_default_root_handle == XCBHandle(Root)

(* grab_pointer / ungrab_pointer as the server sees them: a grab that is   *)
(* granted leaves the adapter holding the pointer, a refused one changes   *)
(* nothing; an ungrab that reaches the server releases it.                 *)
grab_pointer(held, grab_ok) == IF grab_ok THEN TRUE ELSE held
ungrab_pointer(held, ungrab_ok) == IF ungrab_ok THEN FALSE ELSE held

(* A set_mode whose first arm never matches. *)
targets_root_never(m) == FALSE

(* The guard of the first arm of set_mode: a mode that carries the root    *)
(* handle.                                                                 *)
targets_root(m) == m.k # "Normal" /\ m.h = get_default_root_handle

(* A set_mode that arms from every mode. *)
may_arm_always(st) == TRUE

(* The guard of the arming arm of set_mode: `self.mode == Mode::Normal`.   *)
may_arm(st) == st.mode = ModeNormal

(* set_mode(m) on the adapter state st = [mode, mode_origin, pointer_grab].*)
(* cursor is the result of get_cursor_point; the results of the grab and   *)
(* of the ungrab are dropped by the code.                                  *)
set_mode(st, m, cursor, grab_ok, ungrab_ok) ==
    IF targets_root(m)
    THEN [st EXCEPT !.reqs = <<>>]
    ELSE IF m.k \in {"ReadyToMove", "ReadyToResize"} /\ may_arm(st)
    THEN [mode |-> m,
          mode_origin |-> IF cursor.res = "Ok" THEN cursor.v ELSE st.mode_origin,
          pointer_grab |-> grab_pointer(st.pointer_grab, grab_ok),
          reqs |-> <<"query_pointer", "grab_pointer">>]
    ELSE IF /\ m.k \in {"MovingWindow", "ResizingWindow"}
            /\ (st.mode = Mode("ReadyToMove", m.h) \/ st.mode = Mode("ReadyToResize", m.h))
    THEN [mode |-> m,
          mode_origin |-> st.mode_origin,
          pointer_grab |-> grab_pointer(ungrab_pointer(st.pointer_grab, ungrab_ok),
                                        grab_ok),
          reqs |-> <<"ungrab_pointer", "grab_pointer">>]
    ELSE IF m.k = "Normal"
    THEN [mode |-> m,
          mode_origin |-> st.mode_origin,
          pointer_grab |-> ungrab_pointer(st.pointer_grab, ungrab_ok),
          reqs |-> <<"ungrab_pointer">>]
    ELSE [st EXCEPT !.reqs = <<>>]

(* The throttle of from_motion_notify:                                     *)
(*   refresh_rate > 0 && time as u64 - limiter > (1000 / refresh_rate).    *)
(* The subtraction is unsigned: with time < limiter it aborts in a build   *)
(* with overflow checks and wraps in one without; the wrapped difference   *)
(* is at least 2^64 - 2^32 and so above every threshold.                   *)
motion_passes(refresh_rate, time, limiter, overflow_checks) ==
    IF refresh_rate = 0 THEN "no"
    ELSE IF time < limiter THEN (IF overflow_checks THEN "Panic" ELSE "yes")
    ELSE IF time - limiter > 1000 \div refresh_rate THEN "yes" ELSE "no"

(* A translator that reports the root position itself. *)
motion_offset_absolute(ev, origin) == ev.root

(* The offset a motion event reports: its root position minus mode_origin. *)
motion_offset(ev, origin) == <<ev.root[1] - origin[1], ev.root[2] - origin[2]>>

(* from_motion_notify on the adapter state st with limiter lim. *)
from_motion_notify(st, lim, ev, refresh_rate, sloppy, overflow_checks, grab_ok, ungrab_ok) ==
    LET pass == motion_passes(refresh_rate, ev.time, lim, overflow_checks)
        off == motion_offset(ev, st.mode_origin)
        idle == [st |-> [st EXCEPT !.reqs = <<>>], lim |-> lim, res |-> "Ok",
                 event |-> NoEvent]
        to(k) == set_mode(st, Mode(k, st.mode.h), Err, grab_ok, ungrab_ok)
    IN
    IF pass = "Panic" THEN [idle EXCEPT !.res = "Panic"]
    ELSE IF pass = "no" THEN idle
    ELSE CASE st.mode.k = "ReadyToMove" ->
                [st |-> to("MovingWindow"), lim |-> ev.time, res |-> "Ok",
                 event |-> [k |-> "MoveWindow", h |-> st.mode.h, off |-> off]]
           [] st.mode.k = "MovingWindow" ->
                [idle EXCEPT !.lim = ev.time,
                             !.event = [k |-> "MoveWindow", h |-> st.mode.h, off |-> off]]
           [] st.mode.k = "ReadyToResize" ->
                [st |-> to("ResizingWindow"), lim |-> ev.time, res |-> "Ok",
                 event |-> [k |-> "ResizeWindow", h |-> st.mode.h, off |-> off]]
           [] st.mode.k = "ResizingWindow" ->
                [idle EXCEPT !.lim = ev.time,
                             !.event = [k |-> "ResizeWindow", h |-> st.mode.h, off |-> off]]
           [] st.mode.k = "Normal" /\ sloppy ->
                [idle EXCEPT !.lim = ev.time,
                             !.event = [k |-> "Movement", h |-> XCBHandle(ev.event),
                                        at |-> ev.root]]
           [] OTHER -> [idle EXCEPT !.lim = ev.time]

(* A translator that takes the ButtonRelease arm in every mode. *)
from_button_release_any_mode(st, ungrab_ok) ==
    [st |-> set_mode(st, ModeNormal, Err, FALSE, ungrab_ok),
     event |-> [k |-> "ChangeToNormalMode"]]

(* The ButtonRelease arm of the translator: taken only outside Normal      *)
(* mode, where from_button_release sets the mode to Normal.                *)
from_button_release(st, ungrab_ok) ==
    IF st.mode # ModeNormal
    THEN [st |-> set_mode(st, ModeNormal, Err, FALSE, ungrab_ok),
          event |-> [k |-> "ChangeToNormalMode"]]
    ELSE [st |-> [st EXCEPT !.reqs = <<>>], event |-> NoEvent]

----------------------------------------------------------------------------
(* Specification of the mode machine.  srv holds what new() and            *)
(* load_config fixed: the refresh rate and the focus behaviour.            *)

ModeTargets == {XCBHandle(w) : w \in Win} \cup {get_default_root_handle}
CursorReplies == {Err} \cup {Ok(p) : p \in Points}

(* The replies drawn for a set_mode(Mode(k, h)) call: those of the        *)
(* requests the call sends in the current mode, and no choice where it     *)
(* sends none.  The build profile is a choice only where the throttle's    *)
(* subtraction overflows, the window of a motion event only where the      *)
(* translator reads it (Normal mode).                                      *)
Arms(k, h) ==
    /\ k \in {"ReadyToMove", "ReadyToResize"}
    /\ h # get_default_root_handle
    /\ mode = ModeNormal
PointerReplies(k, h) == IF Arms(k, h) THEN CursorReplies ELSE {Err}
GrabReplies(k, h) == IF Arms(k, h) THEN BOOLEAN ELSE {FALSE}
MotionWindows == IF mode = ModeNormal THEN Win ELSE {1}
AdvanceReplies == IF mode.k \in {"ReadyToMove", "ReadyToResize"} THEN BOOLEAN ELSE {FALSE}
OverflowBuilds(time) == IF time < motion_event_limiter THEN BOOLEAN ELSE {FALSE}

AdapterMode == [mode |-> mode, mode_origin |-> mode_origin,
                pointer_grab |-> pointer_grab, reqs |-> <<>>]

InitMode ==
    /\ managed_windows = <<>>
    /\ client_list = <<>>
    /\ mode = ModeNormal
    /\ mode_origin = <<0, 0>>
    /\ pointer_grab = FALSE
    /\ motion_event_limiter = 0
    /\ focused_window = Root
    /\ srv \in [refresh_rate : RefreshRates, sloppy : BOOLEAN]
    /\ last = [op |-> "new", from |-> ModeNormal, res |-> "Ok", event |-> NoEvent,
               reqs |-> <<>>, arg |-> <<>>]

SetAdapterMode(st) ==
    /\ mode' = st.mode
    /\ mode_origin' = st.mode_origin
    /\ pointer_grab' = st.pointer_grab

(* DisplayAction::ReadyToMoveWindow(h) and ReadyToResizeWindow(h). *)
ReadyToWindow(k, h) ==
    /\ last.res # "Panic"
    /\ \E cursor \in PointerReplies(k, h), grab_ok \in GrabReplies(k, h) :
         LET st == set_mode(AdapterMode, Mode(k, h), cursor, grab_ok, FALSE) IN
         /\ SetAdapterMode(st)
         /\ last' = [op |-> k, from |-> mode, res |-> "Ok", event |-> NoEvent,
                     reqs |-> st.reqs, arg |-> <<h, cursor>>]
    /\ UNCHANGED <<lifecycle_vars, motion_event_limiter, srv, focused_window>>

ReadyToMoveWindow(h) == ReadyToWindow("ReadyToMove", h)
ReadyToResizeWindow(h) == ReadyToWindow("ReadyToResize", h)

(* DisplayAction::NormalMode. *)
NormalMode ==
    /\ last.res # "Panic"
    /\ \E ungrab_ok \in BOOLEAN :
         LET st == set_mode(AdapterMode, ModeNormal, Err, FALSE, ungrab_ok) IN
         /\ SetAdapterMode(st)
         /\ last' = [op |-> "NormalMode", from |-> mode, res |-> "Ok",
                     event |-> NoEvent, reqs |-> st.reqs, arg |-> <<>>]
    /\ UNCHANGED <<lifecycle_vars, motion_event_limiter, srv, focused_window>>

(* get_next_events on a queue that holds one MotionNotify. *)
MotionNotify ==
    /\ last.res # "Panic"
    /\ \E time \in 0..MaxTime, root \in Points, w \in MotionWindows,
          grab_ok \in AdvanceReplies, ungrab_ok \in AdvanceReplies :
       \E overflow_checks \in OverflowBuilds(time) :
         LET ev == [time |-> time, root |-> root, event |-> w]
             r == from_motion_notify(AdapterMode, motion_event_limiter, ev,
                                     srv.refresh_rate, srv.sloppy, overflow_checks,
                                     grab_ok, ungrab_ok)
         IN
         /\ SetAdapterMode(r.st)
         /\ motion_event_limiter' = r.lim
         /\ last' = [op |-> "MotionNotify", from |-> mode, res |-> r.res,
                     event |-> r.event, reqs |-> r.st.reqs, arg |-> <<root, time>>]
    /\ UNCHANGED <<lifecycle_vars, srv, focused_window>>

(* get_next_events on a queue that holds one ButtonRelease. *)
ButtonRelease ==
    /\ last.res # "Panic"
    /\ \E ungrab_ok \in BOOLEAN :
         LET r == from_button_release(AdapterMode, ungrab_ok) IN
         /\ SetAdapterMode(r.st)
         /\ last' = [op |-> "ButtonRelease", from |-> mode, res |-> "Ok",
                     event |-> r.event, reqs |-> r.st.reqs, arg |-> <<>>]
    /\ UNCHANGED <<lifecycle_vars, motion_event_limiter, srv, focused_window>>

NextMode ==
    \/ \E h \in ModeTargets : ReadyToMoveWindow(h)
    \/ \E h \in ModeTargets : ReadyToResizeWindow(h)
    \/ NormalMode
    \/ MotionNotify
    \/ ButtonRelease

SpecMode == InitMode /\ [][NextMode]_vars

(* The step is an arming action that set_mode accepts. *)
ArmingStep ==
    /\ last'.op \in {"ReadyToMove", "ReadyToResize"}
    /\ mode = ModeNormal
    /\ last'.arg[1] # XCBHandle(Root)

(* The step translates a MotionNotify that passes the throttle. *)
ThrottledMotionStep ==
    /\ last'.op = "MotionNotify"
    /\ last'.res = "Ok"
    /\ srv.refresh_rate > 0
    /\ \/ last'.arg[2] < motion_event_limiter
       \/ last'.arg[2] - motion_event_limiter > 1000 \div srv.refresh_rate

ReportedOffset ==
    <<last'.arg[1][1] - mode_origin[1], last'.arg[1][2] - mode_origin[2]>>

(* C6: arming from Normal for a window h other than the root sets the     *)
(* mode to ReadyToMove(h) / ReadyToResize(h) and records the pointer       *)
(* position the server reports; the first throttled motion then turns      *)
(* ReadyToResize(h) into ResizingWindow(h) (ReadyToMove(h) into            *)
(* MovingWindow(h)) and every later one keeps that mode; each of them      *)
(* emits ResizeWindow (MoveWindow) for h with the event's root position    *)
(* minus the origin of the session, which no step of the session changes.  *)
C6_ArmedMotionOffsets ==
    [][/\ ArmingStep =>
            /\ mode' = Mode(last'.op, last'.arg[1])
            /\ last'.arg[2].res = "Ok" => mode_origin' = last'.arg[2].v
       /\ mode # ModeNormal => mode_origin' = mode_origin
       /\ (ThrottledMotionStep /\ mode.k \in {"ReadyToResize", "ResizingWindow"}) =>
            /\ mode' = Mode("ResizingWindow", mode.h)
            /\ last'.event = [k |-> "ResizeWindow", h |-> mode.h, off |-> ReportedOffset]
       /\ (ThrottledMotionStep /\ mode.k \in {"ReadyToMove", "MovingWindow"}) =>
            /\ mode' = Mode("MovingWindow", mode.h)
            /\ last'.event = [k |-> "MoveWindow", h |-> mode.h, off |-> ReportedOffset]
      ]_vars

(* A second throttled motion of a resize session armed at (15, 10). *)
C6_Witness ==
    /\ last.op = "MotionNotify"
    /\ last.from = Mode("ResizingWindow", XCBHandle(1))
    /\ mode = Mode("ResizingWindow", XCBHandle(1))
    /\ mode_origin = <<15, 10>>
    /\ last.event = [k |-> "ResizeWindow", h |-> XCBHandle(1), off |-> <<5, 20>>]

(* C7: the NormalMode action sets the mode to Normal and sends a pointer  *)
(* ungrab from every mode; a ButtonRelease outside Normal mode does the    *)
(* same and emits ChangeToNormalMode; a ButtonRelease in Normal mode emits *)
(* nothing, sends nothing and leaves every field of the adapter as it was. *)
C7_ReturnToNormal ==
    [][/\ last'.op = "NormalMode" =>
            /\ mode' = ModeNormal
            /\ Contains(last'.reqs, "ungrab_pointer")
       /\ (last'.op = "ButtonRelease" /\ mode # ModeNormal) =>
            /\ mode' = ModeNormal
            /\ Contains(last'.reqs, "ungrab_pointer")
            /\ last'.event = [k |-> "ChangeToNormalMode"]
       /\ (last'.op = "ButtonRelease" /\ mode = ModeNormal) =>
            /\ last'.event = NoEvent
            /\ last'.reqs = <<>>
            /\ UNCHANGED <<lifecycle_vars, mode_vars, focused_window>>
      ]_vars

(* NormalMode taken in the middle of a resize, the grab released. *)
C7_Witness ==
    /\ last.op = "NormalMode"
    /\ last.from.k = "ResizingWindow"
    /\ mode = ModeNormal
    /\ ~pointer_grab

(* C14: the mode never carries the root handle, and a ReadyToMoveWindow   *)
(* or ReadyToResizeWindow action whose target is the root sends nothing    *)
(* and leaves the mode, the session origin and the pointer grab unchanged. *)
C14_ModeNeverRoot ==
    /\ [](mode.k # "Normal" => mode.h # XCBHandle(Root))
    /\ [][(/\ last'.op \in {"ReadyToMove", "ReadyToResize"}
           /\ last'.arg[1] = XCBHandle(Root))
             => /\ UNCHANGED <<mode, mode_origin, pointer_grab>>
                /\ last'.reqs = <<>>]_vars

(* A resize of the root asked for in the middle of a move of window 1. *)
C14_Witness ==
    /\ last.op = "ReadyToResize"
    /\ last.arg[1] = XCBHandle(Root)
    /\ last.from = Mode("MovingWindow", XCBHandle(1))
    /\ mode = Mode("MovingWindow", XCBHandle(1))
    /\ pointer_grab

(* The step asks to arm for a window other than the root while the mode    *)
(* is armed or active for a different window.                              *)
RearmStep ==
    /\ last'.op \in {"ReadyToMove", "ReadyToResize"}
    /\ last'.arg[1] # XCBHandle(Root)
    /\ mode # ModeNormal
    /\ mode.h # last'.arg[1]

(* C15: a request to arm move or resize for a window b other than the     *)
(* root, made while the mode is armed or active for a different window a,  *)
(* is accepted: afterwards the mode is ReadyToMove(b) or ReadyToResize(b). *)
C15_RearmAccepted ==
    [][RearmStep => mode' = Mode(last'.op, last'.arg[1])]_vars

(* C15 as the code has it: such a request is ignored; the mode, the       *)
(* session origin and the pointer grab stay as they were and no request    *)
(* is sent.                                                                *)
C15_RearmIgnored ==
    [][RearmStep => /\ UNCHANGED <<mode, mode_origin, pointer_grab>>
                    /\ last'.reqs = <<>>]_vars

(* A move of window 2 asked for in the middle of a resize of window 1. *)
C15_Witness ==
    /\ last.op = "ReadyToMove"
    /\ last.arg[1] = XCBHandle(2)
    /\ last.from = Mode("ResizingWindow", XCBHandle(1))
    /\ mode = Mode("ResizingWindow", XCBHandle(1))

(* The step translates a MotionNotify into a DisplayEvent. *)
YieldingMotionStep == last'.op = "MotionNotify" /\ last'.event # NoEvent

Apart(t1, t2) == IF t1 < t2 THEN t2 - t1 ELSE t1 - t2

(* C16: a MotionNotify is translated into a DisplayEvent only with a      *)
(* refresh rate above 0, and the timestamps of two motion events that are  *)
(* translated one after the other are more than 1000 / refresh_rate apart, *)
(* also when the second timestamp is the smaller one.                      *)
C16_MotionThrottle ==
    [][YieldingMotionStep =>
         /\ srv.refresh_rate > 0
         /\ (last.op = "MotionNotify" /\ last.event # NoEvent) =>
               Apart(last'.arg[2], last.arg[2]) > 1000 \div srv.refresh_rate]_vars

(* C36: the adapter holds the pointer grab exactly when the mode is not   *)
(* Normal.                                                                 *)
C36_GrabIffNotNormal == pointer_grab <=> mode # ModeNormal

----------------------------------------------------------------------------
(* The interactive session next to the window lifecycle: the lifecycle     *)
(* handlers and the actions that arm and leave a session, on one adapter.  *)

NextSession ==
    \/ Next
    \/ \E h \in ModeTargets : ReadyToMoveWindow(h)
    \/ \E h \in ModeTargets : ReadyToResizeWindow(h)
    \/ NormalMode

SpecSession == Init /\ [][NextSession]_vars

(* C38: the window of a mode other than Normal is in the managed set.      *)
C38_SessionTargetIsManaged ==
    mode # ModeNormal => Contains(managed_windows, mode.h.id)

----------------------------------------------------------------------------
(* Configure requests.                                                     *)

(* set_window_config: configure_window, then sync.  The geometry is        *)
(* applied once the configure request went out, whether or not the sync    *)
(* that follows succeeds.                                                  *)
set_window_config(geometry, window_changes, fail) ==
    IF fail = "configure_window"
    THEN [geometry |-> geometry, res |-> "Err", reqs |-> <<"configure_window">>]
    ELSE [geometry |-> window_changes,
          res |-> IF fail = "sync" THEN "Err" ELSE "Ok",
          reqs |-> <<"configure_window", "sync">>]

(* XyhwChange with the fields the translator fills. *)
XyhwChange(x, y, w, h) == [x |-> x, y |-> y, w |-> w, h |-> h]

(* from_configure_request for the window s.w the server describes by s.    *)
from_configure_request(mw, s, event, fail) ==
    IF ~Contains(mw, event.window)
    THEN LET window_changes == [x |-> event.x, y |-> event.y,
                                width |-> event.width, height |-> event.height,
                                border_width |-> event.border_width,
                                sibling |-> event.sibling,
                                stack_mode |-> event.stack_mode]
             r == set_window_config(s.geometry, window_changes, fail)
         IN  [geometry |-> r.geometry, res |-> "Ok", event |-> NoEvent, reqs |-> r.reqs]
    ELSE LET window_type == get_window_type(s.wtype, fail = "get_window_type")
             trans == get_transient_for(s.trans, fail = "get_transient_for")
             handle == XCBHandle(event.window)
             quiet(res, reqs) == [geometry |-> s.geometry, res |-> res,
                                  event |-> NoEvent, reqs |-> reqs]
         IN
         IF window_type.res = "Panic" THEN quiet("Panic", <<"get_window_type">>)
         ELSE IF window_type.res = "Err" THEN quiet("Ok", <<"get_window_type">>)
         ELSE IF trans.res = "Panic"
         THEN quiet("Panic", <<"get_window_type", "get_transient_for">>)
         ELSE IF trans.res = "Err"
         THEN quiet("Ok", <<"get_window_type", "get_transient_for">>)
         ELSE [geometry |-> s.geometry, res |-> "Ok",
               reqs |-> <<"get_window_type", "get_transient_for">>,
               event |->
                 IF window_type.v = "Normal" /\ trans.v = None
                 THEN [k |-> "ConfigureXlibWindow", h |-> handle]
                 ELSE [k |-> "WindowChange", h |-> handle,
                       floating |->
                         IF window_type.v \in {"Dialog", "Normal"}
                         THEN XyhwChange(None, None, Some(event.width), Some(event.height))
                         ELSE XyhwChange(Some(event.x), Some(event.y),
                                         Some(event.width), Some(event.height))]]

----------------------------------------------------------------------------
(* Specification of configure requests: a client window, with its type     *)
(* and transient-for properties and its geometry, asks to be configured.   *)

ConfigureTypeAtoms == TypeAtoms \cup {"_NET_WM_WINDOW_TYPE_UTILITY"}
Geometries ==
    {[x |-> 10, y |-> 20, width |-> 300, height |-> 200, border_width |-> 1,
      sibling |-> Root, stack_mode |-> "Above"],
     [x |-> 0, y |-> 5, width |-> 640, height |-> 480, border_width |-> 0,
      sibling |-> Root, stack_mode |-> "Below"]}
ConfigureFails == {"none", "configure_window", "sync", "get_window_type",
                   "get_transient_for"}

InitConfigure ==
    /\ managed_windows \in {<<>>} \cup {<<w>> : w \in Win}
    /\ client_list = managed_windows
    /\ mode = ModeNormal
    /\ mode_origin = <<0, 0>>
    /\ pointer_grab = FALSE
    /\ motion_event_limiter = 0
    /\ focused_window = Root
    /\ srv \in [w : Win,
                wtype : {None, Some(<<>>)} \cup {Some(<<a>>) : a \in ConfigureTypeAtoms},
                trans : {None, Some(<<>>), Some(<<Root>>)},
                geometry : {[x |-> 1, y |-> 1, width |-> 1, height |-> 1,
                             border_width |-> 0, sibling |-> Root,
                             stack_mode |-> "Above"]}]
    /\ last = [op |-> "new", res |-> "Ok", event |-> NoEvent, reqs |-> <<>>,
               arg |-> <<>>, fail |-> "none"]

(* get_next_events on a queue that holds one ConfigureRequest for srv.w. *)
ConfigureRequest ==
    /\ last.res # "Panic"
    /\ \E g \in Geometries, fail \in ConfigureFails :
         LET event == [window |-> srv.w, x |-> g.x, y |-> g.y, width |-> g.width,
                       height |-> g.height, border_width |-> g.border_width,
                       sibling |-> g.sibling, stack_mode |-> g.stack_mode]
             r == from_configure_request(managed_windows, srv, event, fail)
         IN
         /\ srv' = [srv EXCEPT !.geometry = r.geometry]
         /\ last' = [op |-> "ConfigureRequest", res |-> r.res, event |-> r.event,
                     reqs |-> r.reqs, arg |-> event, fail |-> fail]
    /\ UNCHANGED <<lifecycle_vars, mode_vars, focused_window>>

NextConfigure == ConfigureRequest

SpecConfigure == InitConfigure /\ [][NextConfigure]_vars

(* The type a window declares: the first atom of _NET_WM_WINDOW_TYPE, and  *)
(* Normal for a window that does not set the property.                     *)
DeclaredType(reply) ==
    IF reply = None THEN "Normal"
    ELSE CASE reply[1][1] = "_NET_WM_WINDOW_TYPE_SPLASH" -> "Splash"
           [] reply[1][1] = "_NET_WM_WINDOW_TYPE_DIALOG" -> "Dialog"
           [] reply[1][1] = "_NET_WM_WINDOW_TYPE_DOCK" -> "Dock"
           [] reply[1][1] = "_NET_WM_WINDOW_TYPE_UTILITY" -> "Utility"
           [] OTHER -> "Normal"

(* C4: configure-request routing, for a request none of whose protocol    *)
(* requests fails and a window whose properties are not empty lists: an    *)
(* unmanaged window gets exactly the requested geometry and no event; a    *)
(* managed Normal window without transient parent yields                   *)
(* ConfigureXlibWindow and no configure request; a managed Dialog, or      *)
(* Normal window with a parent, yields a WindowChange patching width and   *)
(* height only; every other managed type one patching x, y, width, height. *)
C4_ConfigureRouting ==
    [][(/\ last'.op = "ConfigureRequest"
        /\ last'.fail = "none"
        /\ srv.wtype # Some(<<>>) /\ srv.trans # Some(<<>>)) =>
         LET e == last'.arg
             managed == Contains(managed_windows, e.window)
             type == DeclaredType(srv.wtype)
             h == XCBHandle(e.window)
         IN
         /\ ~managed =>
              /\ last'.event = NoEvent
              /\ srv'.geometry.x = e.x /\ srv'.geometry.y = e.y
              /\ srv'.geometry.width = e.width /\ srv'.geometry.height = e.height
              /\ srv'.geometry.border_width = e.border_width
         /\ managed => (srv'.geometry = srv.geometry
                        /\ ~Contains(last'.reqs, "configure_window"))
         /\ (managed /\ type = "Normal" /\ srv.trans = None) =>
              last'.event = [k |-> "ConfigureXlibWindow", h |-> h]
         /\ (managed /\ (type = "Dialog" \/ (type = "Normal" /\ srv.trans # None))) =>
              last'.event = [k |-> "WindowChange", h |-> h,
                             floating |-> XyhwChange(None, None, Some(e.width),
                                                     Some(e.height))]
         /\ (managed /\ type \notin {"Dialog", "Normal"}) =>
              last'.event = [k |-> "WindowChange", h |-> h,
                             floating |-> XyhwChange(Some(e.x), Some(e.y),
                                                     Some(e.width), Some(e.height))]
      ]_vars

----------------------------------------------------------------------------
(* Client messages.                                                        *)

MaxStates == 2         \* cap on the length of a _NET_WM_STATE list

(* The numeric value of a state atom; the server assigns them at start.    *)
AtomId(a) ==
    CASE a = "_NET_WM_STATE_MODAL" -> 301
      [] a = "_NET_WM_STATE_ABOVE" -> 310
      [] a = "_NET_WM_STATE_FULLSCREEN" -> 309
      [] OTHER -> 400

Range(s) == {s[i] : i \in 1..Len(s)}

(* states.sort_unstable(); states.dedup(): the atoms of the list once      *)
(* each, in increasing numeric order.                                      *)
sort_dedup(states) ==
    LET S == Range(states) IN
    CHOOSE t \in [1..Cardinality(S) -> S] :
        \A i, j \in 1..Cardinality(S) : i < j => AtomId(t[i]) < AtomId(t[j])

(* set_window_urgency(window, is_urgent): reads WM_HINTS and rewrites them *)
(* only when the urgency flag differs.                                     *)
set_window_urgency(urgent, is_urgent, fail) ==
    IF fail = "get_wmhints" THEN [urgent |-> urgent, res |-> "Err"]
    ELSE IF urgent = is_urgent THEN [urgent |-> urgent, res |-> "Ok"]
    ELSE IF fail = "set_wmhints" THEN [urgent |-> urgent, res |-> "Err"]
    ELSE [urgent |-> is_urgent, res |-> "Ok"]

(* event_translate_client_message::from_event for a message about the     *)
(* window the server describes by s (its _NET_WM_STATE reply s.states and  *)
(* its urgency flag).                                                      *)
from_event(mw, s, event, fail) ==
    LET same(res, ev) == [states |-> s.states, urgent |-> s.urgent, res |-> res,
                          event |-> ev]
        fs == "_NET_WM_STATE_FULLSCREEN"
    IN
    IF ~Contains(mw, event.window) /\ event.window # Root THEN same("Ok", NoEvent)
    ELSE IF fail = "get_xatom_name" THEN same("Err", NoEvent)
    ELSE IF event.type = "_NET_CURRENT_DESKTOP"
    THEN same("Ok", [k |-> "SendCommand", cmd |-> "GoToTag", tag |-> event.data[1] + 1])
    ELSE IF event.type = "_NET_WM_DESKTOP"
    THEN same("Ok", [k |-> "SendCommand", cmd |-> "SendWindowToTag",
                     h |-> XCBHandle(event.window), tag |-> event.data[1] + 1])
    ELSE IF event.type = "_NET_ACTIVE_WINDOW"
    THEN LET u == set_window_urgency(s.urgent, TRUE, fail) IN
         [states |-> s.states, urgent |-> u.urgent, res |-> u.res, event |-> NoEvent]
    ELSE IF event.type # "_NET_WM_STATE" THEN same("Ok", NoEvent)
    ELSE LET names_fs == event.data[2] = fs \/ event.data[3] = fs
             old == get_window_states_atoms(s.states, fail = "get_window_states_atoms")
             fullscreen == IF event.data[1] = 2 THEN ~Contains(old.v, fs)
                           ELSE event.data[1] = 1
             changed == sort_dedup(IF fullscreen THEN Append(old.v, fs)
                                   ELSE Retain(old.v, fs))
             written == IF names_fs THEN Some(changed) ELSE s.states
             report == get_window_states(written, fail = "get_window_states")
         IN
         IF names_fs /\ old.res # "Ok" THEN same("Err", NoEvent)
         ELSE IF names_fs /\ fail = "set_window_states_atoms" THEN same("Err", NoEvent)
         ELSE IF report.res # "Ok"
         THEN [states |-> written, urgent |-> s.urgent, res |-> "Err", event |-> NoEvent]
         ELSE [states |-> written, urgent |-> s.urgent, res |-> "Ok",
               event |-> [k |-> "WindowChange", h |-> XCBHandle(event.window),
                          states |-> report.v]]

(* The client-message specification: the server holds the _NET_WM_STATE    *)
(* property and the urgency hint of window srv.w (the root or window 1,    *)
(* managed or not), and client messages about that window arrive.          *)
StateAtoms == {"_NET_WM_STATE_FULLSCREEN", "_NET_WM_STATE_ABOVE", "_NET_WM_STATE_FOCUSED"}

RECURSIVE SeqsUpTo(_, _)
SeqsUpTo(S, n) ==
    IF n = 0 THEN {<<>>}
    ELSE LET shorter == SeqsUpTo(S, n - 1) IN
         shorter \cup {Append(t, a) : t \in shorter, a \in S}

StateReplies == {None} \cup {Some(l) : l \in SeqsUpTo(StateAtoms, MaxStates)}

MessageTypes == {"_NET_CURRENT_DESKTOP", "_NET_WM_DESKTOP", "_NET_ACTIVE_WINDOW",
                 "_NET_WM_STATE", "WM_PROTOCOLS"}

(* data[0] is the action (or the desktop index), data[1] and data[2] the   *)
(* two atoms a _NET_WM_STATE message names.                                *)
MessageData == {<<a, p[1], p[2]>> : a \in 0..2,
                p \in {<<"_NET_WM_STATE_FULLSCREEN", "None">>,
                       <<"None", "_NET_WM_STATE_FULLSCREEN">>,
                       <<"_NET_WM_STATE_ABOVE", "None">>}}

(* The requests the branch of a message type sends, each of which can fail. *)
ClientFails(type) ==
    {"none", "get_xatom_name"} \cup
    (IF type = "_NET_ACTIVE_WINDOW" THEN {"get_wmhints", "set_wmhints"}
     ELSE IF type = "_NET_WM_STATE"
     THEN {"get_window_states_atoms", "set_window_states_atoms", "get_window_states"}
     ELSE {})

InitClientMessage ==
    /\ managed_windows \in {<<>>, <<1>>}
    /\ client_list = managed_windows
    /\ mode = ModeNormal
    /\ mode_origin = <<0, 0>>
    /\ pointer_grab = FALSE
    /\ motion_event_limiter = 0
    /\ focused_window = Root
    /\ srv \in [w : {Root, 1}, states : StateReplies, urgent : BOOLEAN]
    /\ last = [op |-> "Init", arg |-> <<>>, failed |-> FALSE, before |-> None,
               res |-> "Ok", event |-> NoEvent]

ClientMessage ==
    \E type \in MessageTypes, data \in MessageData :
      \E fail \in ClientFails(type) :
        LET window == srv.w
            r == from_event(managed_windows, srv,
                            [window |-> window, type |-> type, data |-> data], fail)
        IN
        /\ last.res # "Panic"
        /\ srv' = [w |-> srv.w, states |-> r.states, urgent |-> r.urgent]
        /\ last' = [op |-> "ClientMessage", arg |-> <<window, type, data>>,
                    failed |-> fail # "none", before |-> srv.states,
                    res |-> r.res, event |-> check_xcb_error(r.res, r.event)]
        /\ UNCHANGED <<lifecycle_vars, mode_vars, focused_window>>

NextClientMessage == ClientMessage

SpecClientMessage == InitClientMessage /\ [][NextClientMessage]_vars

(* The atoms of a _NET_WM_STATE reply as a set; an absent property is the  *)
(* empty list.                                                             *)
StateSet(reply) == IF reply = None THEN {} ELSE Range(reply[1])

(* The window states a set of atoms stands for.                           *)
KnownStates(atoms) ==
    {WindowStateOf(a) : a \in atoms \ {"_NET_WM_STATE_FOCUSED"}}

(* The last handler was a toggle of the fullscreen atom on a managed       *)
(* window during which no protocol request failed.                         *)
FullscreenToggled ==
    /\ last.op = "ClientMessage"
    /\ ~last.failed
    /\ last.arg[1] = 1 /\ Contains(managed_windows, 1)
    /\ last.arg[2] = "_NET_WM_STATE"
    /\ last.arg[3][1] = 2
    /\ "_NET_WM_STATE_FULLSCREEN" \in {last.arg[3][2], last.arg[3][3]}

(* C5: after a _NET_WM_STATE toggle naming the fullscreen atom on a        *)
(* managed window, the fullscreen atom is in the window's state list       *)
(* exactly when it was not before, every other atom is in the list exactly *)
(* when it was before, and the handler emits a WindowChange for the window *)
(* whose states are the states of the resulting list.                      *)
C5_FullscreenToggle ==
    FullscreenToggled =>
      LET fs == "_NET_WM_STATE_FULLSCREEN" IN
      /\ (fs \in StateSet(srv.states)) = (fs \notin StateSet(last.before))
      /\ StateSet(srv.states) \ {fs} = StateSet(last.before) \ {fs}
      /\ last.event.k = "WindowChange"
      /\ last.event.h = XCBHandle(1)
      /\ Range(last.event.states) = KnownStates(StateSet(srv.states))

----------------------------------------------------------------------------
(* Passive button grabs.                                                   *)

(* xproto::ModMask as u16.                                                 *)
ModMask(name) ==
    CASE name = "SHIFT" -> 1
      [] name = "LOCK" -> 2
      [] name = "CONTROL" -> 4
      [] name = "M1" -> 8
      [] name = "M2" -> 16
      [] name = "M3" -> 32
      [] name = "M4" -> 64
      [] name = "M5" -> 128
      [] name = "ANY" -> 32768

(* The bit-wise or of two u16 values.                                      *)
RECURSIVE BitOr(_, _)
BitOr(a, b) ==
    IF a = 0 THEN b
    ELSE IF b = 0 THEN a
    ELSE (IF a % 2 = 1 \/ b % 2 = 1 THEN 1 ELSE 0) + 2 * BitOr(a \div 2, b \div 2)

(* Whether mask a has every bit of mask b.                                 *)
HasBits(a, b) == BitOr(a, b) = a

(* grab_buttons(window, button, modifiers): the grab_button requests it    *)
(* sends, in order; a grab is the pair of its button and modifier mask.    *)
grab_buttons(button, modifiers) ==
    << <<button, modifiers>>,
       <<button, BitOr(modifiers, ModMask("M2"))>>,
       <<button, BitOr(modifiers, ModMask("LOCK"))>> >>

(* The grab_button requests of grab_mouse_clicks, in order.                *)
grab_requests(mouse_key_mask, is_focused) ==
    LET mouse_key_mask_with_shift == BitOr(mouse_key_mask, ModMask("SHIFT")) IN
    (IF ~is_focused
     THEN grab_buttons("M1", ModMask("ANY")) \o grab_buttons("M3", ModMask("ANY"))
     ELSE <<>>)
    \o grab_buttons("M1", mouse_key_mask)
    \o grab_buttons("M1", mouse_key_mask_with_shift)
    \o grab_buttons("M3", mouse_key_mask)
    \o grab_buttons("M3", mouse_key_mask_with_shift)

(* ungrab_buttons(handle): one ungrab_button for any button and any        *)
(* modifier, which releases every passive button grab on the window.       *)
ungrab_buttons(grabs, failed) ==
    IF failed THEN [grabs |-> grabs, res |-> "Err"]
    ELSE [grabs |-> {}, res |-> "Ok"]

(* A grab_mouse_clicks that does not release the old grabs first.          *)
grab_mouse_clicks_keep_old(grabs, mouse_key_mask, is_focused, fail) ==
    LET reqs == grab_requests(mouse_key_mask, is_focused) IN
    IF fail = 1 THEN [grabs |-> grabs, res |-> "Err"]
    ELSE IF fail > 1
    THEN [grabs |-> grabs \cup {reqs[i] : i \in 1..(fail - 2)}, res |-> "Err"]
    ELSE [grabs |-> grabs \cup Range(reqs), res |-> "Ok"]

(* grab_mouse_clicks(handle, is_focused) on a window holding the passive   *)
(* grabs `grabs`.  fail = 0: no request fails; fail = 1: the ungrab        *)
(* fails; fail = k + 1: the k-th grab_button fails.                        *)
grab_mouse_clicks(grabs, mouse_key_mask, is_focused, fail) ==
    LET reqs == grab_requests(mouse_key_mask, is_focused)
        released == ungrab_buttons(grabs, fail = 1)
    IN
    IF released.res # "Ok" THEN released
    ELSE IF fail > 1
    THEN [grabs |-> released.grabs \cup {reqs[i] : i \in 1..(fail - 2)}, res |-> "Err"]
    ELSE [grabs |-> released.grabs \cup Range(reqs), res |-> "Ok"]

(* The grab specification: window 1 with its passive button grabs on the   *)
(* server (srv.grabs), the adapter's mouse_key_mask as init(config) set    *)
(* it, and calls of grab_mouse_clicks and ungrab_buttons on the window.    *)
MouseKeyMasks ==
    {ModMask("ANY"), 0, ModMask("M1"), ModMask("M4"), ModMask("SHIFT"),
     ModMask("M2"), ModMask("LOCK"),
     BitOr(ModMask("M4"), ModMask("SHIFT")),
     BitOr(ModMask("M4"), ModMask("CONTROL"))}

InitGrabs ==
    /\ managed_windows = <<1>>
    /\ client_list = managed_windows
    /\ mode = ModeNormal
    /\ mode_origin = <<0, 0>>
    /\ pointer_grab = FALSE
    /\ motion_event_limiter = 0
    /\ focused_window = Root
    /\ srv \in [mouse_key_mask : MouseKeyMasks, grabs : {{}}]
    /\ last = [op |-> "Init", is_focused |-> FALSE, before |-> {}, res |-> "Ok"]

GrabMouseClicks ==
    \E is_focused \in BOOLEAN :
      \E fail \in 0..(Len(grab_requests(srv.mouse_key_mask, is_focused)) + 1) :
        LET r == grab_mouse_clicks(srv.grabs, srv.mouse_key_mask, is_focused, fail) IN
        /\ srv' = [srv EXCEPT !.grabs = r.grabs]
        /\ last' = [op |-> "GrabMouseClicks", is_focused |-> is_focused,
                    before |-> srv.grabs, res |-> r.res]
        /\ UNCHANGED <<lifecycle_vars, mode_vars, focused_window>>

UngrabButtons ==
    \E failed \in BOOLEAN :
        LET r == ungrab_buttons(srv.grabs, failed) IN
        /\ srv' = [srv EXCEPT !.grabs = r.grabs]
        /\ last' = [op |-> "UngrabButtons", is_focused |-> FALSE,
                    before |-> srv.grabs, res |-> r.res]
        /\ UNCHANGED <<lifecycle_vars, mode_vars, focused_window>>

NextGrabs == GrabMouseClicks \/ UngrabButtons

SpecGrabs == InitGrabs /\ [][NextGrabs]_vars

Buttons == {"M1", "M3"}
LockVariants == {0, ModMask("M2"), ModMask("LOCK")}
ShiftVariants == {0, ModMask("SHIFT")}

(* Click grabs: buttons 1 and 3 with any modifier, in the plain, NumLock   *)
(* and CapsLock variant.                                                   *)
ClickGrabs == {<<b, BitOr(ModMask("ANY"), l)>> : b \in Buttons, l \in LockVariants}

(* Drag grabs: buttons 1 and 3 with the mouse modifier mask, in the three  *)
(* lock variants, with and without Shift.                                  *)
DragGrabs(mask) ==
    {<<b, BitOr(BitOr(mask, sh), l)>> : b \in Buttons, l \in LockVariants,
                                        sh \in ShiftVariants}

(* The last handler was a grab_mouse_clicks none of whose requests failed. *)
GrabbedOk == last.op = "GrabMouseClicks" /\ last.res = "Ok"

(* The mouse modifier mask has none of Shift, CapsLock, NumLock and the    *)
(* any-modifier bit.                                                       *)
PlainMask(mask) ==
    \A n \in {"SHIFT", "LOCK", "M2", "ANY"} : ~HasBits(mask, ModMask(n))

----------------------------------------------------------------------------
(* Input focus and the event loop.                                         *)

MaxBatch == 2          \* cap on the events one get_next_events call translates

(* A request is the pair of its name and the window it is sent against;    *)
(* Chain(names, w, fail) is a `?` chain of requests against w: all of      *)
(* them, or those up to and including the failing one.                     *)
Chain(names, w, fail) ==
    LET sent == Sent(names, fail) IN [i \in 1..Len(sent) |-> <<sent[i], w>>]

Failed(names, fail) == Contains(names, fail)

Targets(reqs) == {reqs[i][2] : i \in 1..Len(reqs)}

(* can_send_xevent_atom: unimplemented!().                                 *)
can_send_xevent_atom == Panic

(* send_xevent_atom(window, atom): `can_send_xevent_atom(window, atom)?`   *)
(* comes first.                                                            *)
send_xevent_atom == can_send_xevent_atom

(* focus(window, never_focus): set_input_focus and _NET_ACTIVE_WINDOW      *)
(* unless never_focus, then send_xevent_atom(window, WM_TAKE_FOCUS).       *)
FocusChain == <<"set_input_focus", "set_active_window">>

focus(window, never_focus, fail) ==
    LET reqs == IF never_focus THEN <<>>
                ELSE <<<<"set_input_focus", window>>>> \o
                     (IF fail = "set_input_focus" THEN <<>>
                      ELSE <<<<"set_active_window", Root>>>>)
    IN
    IF ~never_focus /\ Failed(FocusChain, fail)
    THEN [res |-> "Err", reqs |-> reqs]
    ELSE [res |-> send_xevent_atom.res, reqs |-> reqs]

(* from_focus_in: nothing when the event's window is focused_window; else  *)
(* the WM_HINTS of focused_window are read (hints_input is their input     *)
(* field) and focus is called on it.  It never returns an event.           *)
from_focus_in(focused, window, hints_input, fail) ==
    IF focused = window THEN [res |-> "Ok", reqs |-> <<>>, event |-> NoEvent]
    ELSE IF fail = "get_wmhints"
    THEN [res |-> "Err", reqs |-> <<<<"get_wmhints", focused>>>>, event |-> NoEvent]
    ELSE LET never_focus == IF hints_input = None THEN FALSE ELSE ~hints_input[1]
             f == focus(focused, never_focus, fail) IN
         [res |-> f.res, reqs |-> <<<<"get_wmhints", focused>>>> \o f.reqs,
          event |-> NoEvent]

(* window_take_focus(window, previous): focused_window is assigned after   *)
(* the requests about the previous window and before those about the new.  *)
PreviousChain(clickto) ==
    <<"set_window_border_color_previous">> \o
    (IF clickto THEN <<"grab_mouse_clicks_previous">> ELSE <<>>)
TakeFocusChain == <<"grab_mouse_clicks", "set_window_urgency", "set_window_border_color">>

window_take_focus(focused, h, previous, clickto, never_focus, fail) ==
    IF h.kind # "XCB" THEN [focused |-> focused, res |-> "Ok", reqs |-> <<>>]
    ELSE LET prev == IF previous # None /\ previous[1].kind = "XCB"
                     THEN Chain(PreviousChain(clickto), previous[1].id, fail)
                     ELSE <<>>
         IN
         IF previous # None /\ previous[1].kind = "XCB"
            /\ Failed(PreviousChain(clickto), fail)
         THEN [focused |-> focused, res |-> "Err", reqs |-> prev]
         ELSE LET own == Chain(TakeFocusChain, h.id, fail) IN
              IF Failed(TakeFocusChain, fail)
              THEN [focused |-> h.id, res |-> "Err", reqs |-> prev \o own]
              ELSE LET f == focus(h.id, never_focus, fail) IN
                   [focused |-> h.id,
                    res |-> IF f.res = "Ok" /\ fail = "sync" THEN "Err" ELSE f.res,
                    reqs |-> prev \o own \o f.reqs]

(* unfocus(handle, floating): border and click grabs of the window, then   *)
(* the input focus goes to the root.                                       *)
UnfocusChain == <<"set_window_border_color", "grab_mouse_clicks">>
UnfocusRootChain == <<"set_input_focus", "set_active_window">>

unfocus(handle, fail) ==
    LET own == IF handle # None /\ handle[1].kind = "XCB"
               THEN Chain(UnfocusChain, handle[1].id, fail) ELSE <<>>
    IN
    IF handle # None /\ handle[1].kind = "XCB" /\ Failed(UnfocusChain, fail)
    THEN [res |-> "Err", reqs |-> own]
    ELSE [res |-> IF Failed(UnfocusRootChain, fail) THEN "Err" ELSE "Ok",
          reqs |-> own \o Chain(UnfocusRootChain, Root, fail)]

(* The windows a ConfigureRequest translation sends requests against: the *)
(* configure_window of an unmanaged window, the property reads of a        *)
(* managed one.                                                            *)
from_configure_request_reqs(mw, w) ==
    IF ~Contains(mw, w) THEN <<<<"configure_window", w>>>>
    ELSE <<<<"get_window_type", w>>>>

(* event_translate_property_notify::from_event: nothing for the root, a    *)
(* deleted property or an unmanaged window; the atoms it knows make it     *)
(* read properties of the window.                                          *)
PropertyAtoms == {"WM_TRANSIENT_FOR", "WM_NORMAL_HINTS", "WM_HINTS", "WM_NAME",
                  "_NET_WM_NAME", "_NET_WM_STRUT", "_NET_WM_STATE"}

from_property_notify_reqs(mw, w, deleted, atom, fail) ==
    IF w = Root \/ deleted \/ ~Contains(mw, w) THEN <<>>
    ELSE IF fail = "get_xatom_name" THEN <<>>
    ELSE IF atom \in PropertyAtoms THEN <<<<"get_property", w>>>>
    ELSE <<>>

(* event_translate_client_message::from_event, by the windows it sends     *)
(* requests against.                                                       *)
from_client_message_reqs(mw, w, type, fail) ==
    IF ~Contains(mw, w) /\ w # Root THEN <<>>
    ELSE IF fail = "get_xatom_name" THEN <<>>
    ELSE IF type = "_NET_ACTIVE_WINDOW" THEN <<<<"get_wmhints", w>>>>
    ELSE IF type = "_NET_WM_STATE" THEN <<<<"get_property", w>>>>
    ELSE <<>>

(* The pass get_next_events makes over the events it collected, for the    *)
(* windows of its WindowDestroy events in order; the result of             *)
(* force_unmapped is dropped.                                              *)
RECURSIVE forced_unmap_all(_, _, _)
forced_unmap_all(mw, cl, ws) ==
    IF ws = <<>> THEN [managed |-> mw, client_list |-> cl]
    ELSE LET fu == force_unmapped(mw, cl, Head(ws), "none", 0) IN
         forced_unmap_all(fu.managed, fu.client_list, Tail(ws))

(* The event-loop specification: get_next_events translating the queued    *)
(* events one by one (srv.n counts the events of the running call,         *)
(* srv.events are the windows of the WindowDestroy events it collected and *)
(* srv.destroyed the managed windows whose DestroyNotify it translated),   *)
(* and between two calls the actions that add, destroy and focus windows.  *)
TakeFocusFails == {"none", "grab_mouse_clicks_previous", "set_window_urgency",
                   "set_input_focus"}
UnfocusFails == {"none", "grab_mouse_clicks", "set_input_focus"}
FocusInFails == {"none", "get_wmhints", "set_input_focus"}
MessageFails == {"none", "get_xatom_name"}

InitLoop ==
    /\ managed_windows = <<>>
    /\ client_list = <<>>
    /\ mode = ModeNormal
    /\ mode_origin = <<0, 0>>
    /\ pointer_grab = FALSE
    /\ motion_event_limiter = 0
    /\ focused_window = Root
    /\ srv = [n |-> 0, events |-> <<>>, destroyed |-> {}]
    /\ last = [op |-> "new", h |-> MockHandle, res |-> "Ok", event |-> NoEvent,
               td |-> <<>>, reqs |-> <<>>]

(* One iteration of the loop of get_next_events: the translation of one    *)
(* event, whose DisplayEvent is pushed onto the collected events.          *)
Translated(op, w, r, mw, cl) ==
    /\ managed_windows' = mw
    /\ client_list' = cl
    /\ srv' = [srv EXCEPT !.n = srv.n + 1,
                          !.events = IF r.event.k = "WindowDestroy"
                                     THEN Append(srv.events, w) ELSE srv.events,
                          !.destroyed = IF op = "DestroyNotify" /\ Contains(managed_windows, w)
                                        THEN srv.destroyed \cup {w} ELSE srv.destroyed]
    /\ last' = [op |-> op, h |-> XCBHandle(w), res |-> r.res, event |-> r.event,
                td |-> <<>>, reqs |-> r.reqs]
    /\ UNCHANGED <<mode_vars, focused_window>>

InLoop == last.res # "Panic" /\ srv.n < MaxBatch

LoopDestroyNotify(w) ==
    /\ InLoop
    /\ LET r == from_destroy_notify(managed_windows, client_list, w, "none", 0) IN
       Translated("DestroyNotify", w,
                  [res |-> r.res, event |-> r.event,
                   reqs |-> IF Contains(managed_windows, w)
                            THEN <<<<"set_client_list", Root>>>> ELSE <<>>],
                  r.managed, r.client_list)

LoopUnmapNotify(w) ==
    /\ InLoop
    /\ \E sent_event \in BOOLEAN :
         LET r == from_unmap_event(managed_windows, client_list, w, sent_event,
                                   "none", 0) IN
         Translated("UnmapNotify", w,
                    [res |-> r.res, event |-> r.event,
                     reqs |-> IF ~Contains(managed_windows, w)
                              THEN <<>> ELSE <<<<"set_wm_states", w>>>>],
                    r.managed, r.client_list)

LoopConfigureRequest(w) ==
    /\ InLoop
    /\ Translated("ConfigureRequest", w,
                  [res |-> "Ok", event |-> NoEvent,
                   reqs |-> from_configure_request_reqs(managed_windows, w)],
                  managed_windows, client_list)

LoopPropertyNotify(w) ==
    /\ InLoop
    /\ \E deleted \in BOOLEAN, atom \in {"WM_HINTS", "WM_CLASS"}, fail \in MessageFails :
         Translated("PropertyNotify", w,
                    [res |-> IF fail = "none" THEN "Ok" ELSE "Err", event |-> NoEvent,
                     reqs |-> from_property_notify_reqs(managed_windows, w, deleted,
                                                        atom, fail)],
                    managed_windows, client_list)

LoopClientMessage(w) ==
    /\ InLoop
    /\ \E type \in {"_NET_ACTIVE_WINDOW", "_NET_WM_STATE", "WM_PROTOCOLS"},
          fail \in MessageFails :
         Translated("ClientMessage", w,
                    [res |-> IF fail = "none" THEN "Ok" ELSE "Err", event |-> NoEvent,
                     reqs |-> from_client_message_reqs(managed_windows, w, type, fail)],
                    managed_windows, client_list)

LoopFocusIn(w) ==
    /\ InLoop
    /\ \E hints_input \in {None, Some(TRUE), Some(FALSE)}, fail \in FocusInFails :
         Translated("FocusIn", w,
                    from_focus_in(focused_window, w, hints_input, fail),
                    managed_windows, client_list)

(* get_next_event has no further event (or fails, and the call returns an  *)
(* empty vector without the forced-unmap pass): get_next_events returns.   *)
(* collected is the vector of events pushed so far (the windows of its     *)
(* WindowDestroy events), returned the vector the caller gets.             *)
Return ==
    /\ last.res # "Panic"
    /\ \E poll_ok \in BOOLEAN :
         LET r == IF poll_ok
                  THEN forced_unmap_all(managed_windows, client_list, srv.events)
                  ELSE [managed |-> managed_windows, client_list |-> client_list] IN
         /\ managed_windows' = r.managed
         /\ client_list' = r.client_list
         /\ srv' = [srv EXCEPT !.n = 0, !.events = <<>>, !.destroyed = {}]
         /\ last' = [op |-> "Return", h |-> MockHandle,
                     res |-> IF poll_ok THEN "Ok" ELSE "Err", event |-> NoEvent,
                     td |-> <<>>, reqs |-> <<>>,
                     collected |-> srv.events,
                     returned |-> IF poll_ok THEN srv.events ELSE <<>>]
    /\ UNCHANGED <<mode_vars, focused_window>>

(* DisplayAction::AddedWindow for a window the manager has not added yet,  *)
(* all of whose requests succeed.                                          *)
LoopAddedWindow(h) ==
    /\ last.res # "Panic"
    /\ srv.n = 0
    /\ Len(managed_windows) < MaxManaged
    /\ Len(client_list) < MaxManaged
    /\ h.kind = "XCB" => ~Contains(managed_windows, h.id)
    /\ LET r == setup_managed_window(managed_windows, client_list, h, "none", TRUE,
                                     "Ok") IN
       /\ managed_windows' = r.managed
       /\ client_list' = r.client_list
       /\ last' = [op |-> "AddedWindow", h |-> h, res |-> r.res, event |-> r.event,
                   td |-> <<>>, reqs |-> <<>>]
    /\ UNCHANGED <<mode_vars, focused_window, srv>>

(* DisplayAction::DestroyedWindow, all of whose requests succeed.          *)
LoopDestroyedWindow(h) ==
    /\ last.res # "Panic"
    /\ srv.n = 0
    /\ LET r == teardown_managed_window(managed_windows, client_list, h, TRUE,
                                        "none", 0) IN
       /\ managed_windows' = r.managed
       /\ client_list' = r.client_list
       /\ last' = [op |-> "DestroyedWindow", h |-> h, res |-> r.res,
                   event |-> NoEvent, td |-> <<>>, reqs |-> <<>>]
    /\ UNCHANGED <<mode_vars, focused_window, srv>>

(* DisplayAction::WindowTakeFocus { window, previous_window }; clickto is  *)
(* focus_behaviour.is_clickto().                                           *)
WindowTakeFocus(h) ==
    /\ last.res # "Panic"
    /\ srv.n = 0
    /\ \E previous \in {None} \cup {Some(XCBHandle(p)) : p \in Win}, never_focus \in BOOLEAN,
          clickto \in BOOLEAN, fail \in TakeFocusFails :
         LET r == window_take_focus(focused_window, h, previous, clickto,
                                    never_focus, fail) IN
         /\ focused_window' = r.focused
         /\ last' = [op |-> "WindowTakeFocus", h |-> h, res |-> r.res,
                     event |-> NoEvent, td |-> <<>>, reqs |-> <<>>]
    /\ UNCHANGED <<lifecycle_vars, mode_vars, srv>>

(* An Unfocus that also resets focused_window to the root. *)
Unfocus_resets_focused_window ==
    /\ last.res # "Panic"
    /\ srv.n = 0
    /\ \E handle \in {None} \cup {Some(p) : p \in Handles}, fail \in UnfocusFails :
         LET r == unfocus(handle, fail) IN
         last' = [op |-> "Unfocus", h |-> IF handle = None THEN MockHandle ELSE handle[1],
                  res |-> r.res, event |-> NoEvent, td |-> <<>>, reqs |-> <<>>]
    /\ focused_window' = Root
    /\ UNCHANGED <<lifecycle_vars, mode_vars, srv>>

(* DisplayAction::Unfocus(handle, floating). *)
Unfocus ==
    /\ last.res # "Panic"
    /\ srv.n = 0
    /\ \E handle \in {None} \cup {Some(p) : p \in Handles}, fail \in UnfocusFails :
         LET r == unfocus(handle, fail) IN
         last' = [op |-> "Unfocus", h |-> IF handle = None THEN MockHandle ELSE handle[1],
                  res |-> r.res, event |-> NoEvent, td |-> <<>>, reqs |-> <<>>]
    /\ UNCHANGED <<lifecycle_vars, mode_vars, focused_window, srv>>

NextLoop ==
    \/ \E h \in Handles : LoopAddedWindow(h)
    \/ \E h \in Handles : LoopDestroyedWindow(h)
    \/ \E h \in Handles : WindowTakeFocus(h)
    \/ Unfocus
    \/ \E w \in Win : LoopDestroyNotify(w)
    \/ \E w \in Win : LoopUnmapNotify(w)
    \/ \E w \in Win : LoopConfigureRequest(w)
    \/ \E w \in Win \cup {Root} : LoopPropertyNotify(w)
    \/ \E w \in Win \cup {Root} : LoopClientMessage(w)
    \/ \E w \in Win \cup {Root} : LoopFocusIn(w)
    \/ Return

SpecLoop == InitLoop /\ [][NextLoop]_vars

(* A step that translates one event of the running get_next_events call.   *)
TranslationStep(ops) == srv'.n = srv.n + 1 /\ last'.op \in ops

(* C12: translating a DestroyNotify for a managed window w removes w from  *)
(* the managed set and emits WindowDestroy(w), and the translations of the *)
(* later events of the same call (configure-request, property-notify,      *)
(* client-message, focus-in, unmap-notify) send no request against w.      *)
C12_NoRequestAfterDestroy ==
    [][/\ (TranslationStep({"DestroyNotify"}) /\ Contains(managed_windows, last'.h.id))
          => /\ ~Contains(managed_windows', last'.h.id)
             /\ last'.event = [k |-> "WindowDestroy", h |-> last'.h]
       /\ TranslationStep({"ConfigureRequest", "PropertyNotify", "ClientMessage",
                           "FocusIn", "UnmapNotify"})
          => Targets(last'.reqs) \cap srv.destroyed = {}]_vars

(* C17: the translation of a FocusIn returns without a DisplayEvent and    *)
(* leaves focused_window; when the event's window is not focused_window it *)
(* has sent the focus request (the input focus, or the take-focus message) *)
(* against focused_window, and when it is, it has sent no request.         *)
C17_FocusInReasserts ==
    [][TranslationStep({"FocusIn"})
         => /\ last'.res # "Panic"
            /\ last'.event = NoEvent
            /\ focused_window' = focused_window
            /\ last'.h.id # focused_window
               => \E i \in 1..Len(last'.reqs) :
                     last'.reqs[i] \in {<<"set_input_focus", focused_window>>,
                                        <<"send_event", focused_window>>}
            /\ last'.h.id = focused_window => last'.reqs = <<>>]_vars

(* C18: focused_window changes only in a WindowTakeFocus action.           *)
C18_FocusedWindowOnlyByTakeFocus ==
    [][focused_window' # focused_window => last'.op = "WindowTakeFocus"]_vars

(* The focused window was destroyed, and focused_window still names it.    *)
C18_Witness ==
    /\ last.op = "DestroyNotify"
    /\ last.event.k = "WindowDestroy"
    /\ focused_window = last.h.id

(* C20: no event translation and no action panics.                         *)
C20_NoPanic == last.res # "Panic"

(* C31: a WindowTakeFocus of an adapter window runs to its end with        *)
(* focused_window naming the new window (a refused request aside).         *)
C31_TakeFocusCompletes ==
    (last.op = "WindowTakeFocus" /\ last.h.kind = "XCB")
        => (last.res # "Panic" /\ focused_window = last.h.id)

(* C34: get_next_events returns the events it translated, in their order,  *)
(* none dropped.                                                           *)
C34_ReturnsCollectedEvents ==
    last.op = "Return" => last.returned = last.collected

----------------------------------------------------------------------------
(* The background poller and wait_readable.  Here srv holds the transport  *)
(* and the tasks: queue is the number of events waiting on the socket,     *)
(* closed tells that the adapter (and with it _task_guard) was dropped,    *)
(* permit is the permit stored in the shared Notify, poller and waiting    *)
(* are the positions of the blocking task and of the caller's future,      *)
(* turns counts the turns of the task's loop.                              *)

MaxQueue == 3          \* events waiting on the transport are 0..MaxQueue
MaxTurns == 3          \* turns of the poller's loop are counted up to MaxTurns

(* What `events.iter()` yields in the poller's loop: the mio::Events       *)
(* buffer is created empty and the poll call that would fill it is         *)
(* commented out, so whatever the socket holds, no event is seen.          *)
polled_events(queue) == {}

InitPoller ==
    /\ managed_windows = <<>>
    /\ client_list = <<>>
    /\ mode = ModeNormal
    /\ mode_origin = <<0, 0>>
    /\ pointer_grab = FALSE
    /\ motion_event_limiter = 0
    /\ focused_window = Root
    /\ srv = [queue |-> 0, closed |-> FALSE, permit |-> FALSE,
              poller |-> "running", waiting |-> "idle", turns |-> 0]
    /\ last = [op |-> "new", res |-> "Ok"]

PollerStep(op, res, s) ==
    /\ srv' = s
    /\ last' = [op |-> op, res |-> res]
    /\ UNCHANGED <<lifecycle_vars, mode_vars, focused_window>>

(* The server writes an event to the connection: the transport becomes     *)
(* (or stays) readable.                                                    *)
TransportReadable ==
    /\ ~srv.closed
    /\ srv.queue < MaxQueue
    /\ PollerStep("TransportReadable", "Ok", [srv EXCEPT !.queue = @ + 1])

(* One turn of the loop of the blocking task: it returns once the guard is *)
(* closed, else it calls notify_one for every event in its buffer.         *)
PollerIteration ==
    /\ srv.poller = "running"
    /\ IF srv.closed
       THEN PollerStep("PollerIteration", "return", [srv EXCEPT !.poller = "returned"])
       ELSE PollerStep("PollerIteration",
                       IF polled_events(srv.queue) # {} THEN "notify_one" ELSE "none",
                       [srv EXCEPT !.permit = @ \/ polled_events(srv.queue) # {},
                                   !.turns = IF @ < MaxTurns THEN @ + 1 ELSE @])

(* wait_readable: the caller starts to await task_notify.notified().       *)
WaitReadable ==
    /\ ~srv.closed
    /\ srv.waiting = "idle"
    /\ PollerStep("WaitReadable", "Ok", [srv EXCEPT !.waiting = "pending"])

(* The runtime polls the caller's future: it is ready when the Notify      *)
(* holds a permit, which it takes.                                         *)
PollNotified ==
    /\ srv.waiting = "pending"
    /\ IF srv.permit
       THEN PollerStep("PollNotified", "Ready",
                       [srv EXCEPT !.waiting = "idle", !.permit = FALSE])
       ELSE PollerStep("PollNotified", "Pending", srv)

(* get_next_event: poll_for_event takes one event off the connection.      *)
GetNextEvent ==
    /\ ~srv.closed
    /\ srv.waiting = "idle"
    /\ srv.queue > 0
    /\ PollerStep("GetNextEvent", "Ok", [srv EXCEPT !.queue = @ - 1])

(* The adapter is dropped: the receiver _task_guard goes with it.          *)
DropAdapter ==
    /\ ~srv.closed
    /\ PollerStep("DropAdapter", "Ok", [srv EXCEPT !.closed = TRUE])

NextPoller ==
    \/ TransportReadable
    \/ PollerIteration
    \/ WaitReadable
    \/ PollNotified
    \/ GetNextEvent
    \/ DropAdapter

(* The blocking task runs on its own thread and the runtime polls a future *)
(* it was asked to drive: both keep taking steps.                          *)
SpecPoller ==
    /\ InitPoller
    /\ [][NextPoller]_vars
    /\ WF_vars(PollerIteration)
    /\ WF_vars(PollNotified)

(* C19: whenever the transport is readable while the adapter is alive and  *)
(* a caller awaits wait_readable, the poller eventually signals the        *)
(* notification and the caller is resumed (or the adapter is dropped).     *)
C19_ReadableResumesCaller ==
    (srv.queue > 0 /\ ~srv.closed /\ srv.waiting = "pending")
      ~> (srv.permit \/ srv.waiting = "idle" \/ srv.closed)

----------------------------------------------------------------------------
(* Window updates and kill.  Here srv is what the server holds: wm_state   *)
(* is the WM_STATE property reply of each window, notify tells whether the *)
(* root's event mask has substructure-notify, clickto is the focus         *)
(* behaviour load_config fixed.                                            *)

WITHDRAWN_STATE == 0
NORMAL_STATE == 1
ICONIC_STATE == 2

(* get_wm_state: None on an absent property, index 0 of the list. *)
get_wm_state(reply, failed) ==
    IF failed THEN Err
    ELSE IF reply = None THEN Ok(None)
    ELSE IF reply[1] = <<>> THEN Panic
    ELSE Ok(Some(reply[1][1]))

(* toggle_window_visibility(window, visible): one `?` chain.  mask_off and *)
(* mask_on are the two change_window_attributes requests on the root; a    *)
(* request that fails has no effect on the server.                         *)
toggle_window_visibility(x, window, visible, fail) ==
    LET chain == <<"mask_off">>
                 \o (IF visible
                     THEN <<"set_wm_states", "map_window">>
                          \o (IF x.clickto THEN <<"grab_mouse_clicks">> ELSE <<>>)
                     ELSE <<"ungrab_buttons", "unmap_window", "set_wm_states">>)
                 \o <<"mask_on">>
        sent == Sent(chain, fail)
        done(name) == Contains(sent, name) /\ fail # name
    IN  [x |-> [x EXCEPT
                  !.wm_state[window] =
                      IF done("set_wm_states")
                      THEN Some(<<IF visible THEN NORMAL_STATE ELSE ICONIC_STATE>>)
                      ELSE @,
                  !.notify = IF done("mask_on") THEN TRUE
                             ELSE IF done("mask_off") THEN FALSE ELSE @],
         res |-> IF Contains(chain, fail) THEN "Err" ELSE "Ok",
         reqs |-> [i \in 1..Len(sent) |->
                     <<sent[i], IF sent[i] \in {"mask_off", "mask_on"}
                                THEN Root ELSE window>>]]

(* An update_window that toggles whatever WM_STATE says. *)
wm_state_disagrees_always(visible, state) == TRUE

(* The guard of update_window's toggle: WM_STATE is not the state the      *)
(* desired visibility stands for.                                          *)
wm_state_disagrees(visible, state) ==
    \/ visible /\ state # NORMAL_STATE
    \/ ~visible /\ state # ICONIC_STATE

(* update_window(window): the window is configured when it is visible,     *)
(* WM_STATE is read, and the visibility is toggled when WM_STATE           *)
(* disagrees with it.                                                      *)
update_window(x, window, fail) ==
    IF window.handle.kind # "XCB" THEN [x |-> x, res |-> "Ok", reqs |-> <<>>]
    ELSE LET handle == window.handle.id
             config == IF window.visible THEN <<"configure_window", "sync">> ELSE <<>>
             state == get_wm_state(x.wm_state[handle], fail = "get_wm_state")
             read == Chain(config, handle, fail) \o <<<<"get_wm_state", handle>>>>
         IN
         IF Failed(config, fail)
         THEN [x |-> x, res |-> "Err", reqs |-> Chain(config, handle, fail)]
         ELSE IF state.res # "Ok" THEN [x |-> x, res |-> state.res, reqs |-> read]
         ELSE IF state.v = None THEN [x |-> x, res |-> "Ok", reqs |-> read]
         ELSE IF wm_state_disagrees(window.visible, state.v[1])
         THEN LET t == toggle_window_visibility(x, handle, window.visible, fail) IN
              [t EXCEPT !.reqs = read \o @]
         ELSE [x |-> x, res |-> "Ok", reqs |-> read]

(* update_windows(windows): update_window on each window in turn under     *)
(* check_xcb_error!, which returns from update_windows on an Err.          *)
(* called lists the windows update_window was called with.                 *)
RECURSIVE update_windows(_, _, _)
update_windows(x, windows, fail) ==
    IF windows = <<>> THEN [x |-> x, res |-> "Ok", reqs |-> <<>>, called |-> <<>>]
    ELSE LET r == update_window(x, Head(windows), fail) IN
         IF r.res # "Ok"
         THEN [x |-> r.x, res |-> r.res, reqs |-> r.reqs, called |-> <<Head(windows)>>]
         ELSE LET rest == update_windows(r.x, Tail(windows), fail) IN
              [x |-> rest.x, res |-> rest.res, reqs |-> r.reqs \o rest.reqs,
               called |-> <<Head(windows)>> \o rest.called]

(* kill_window(h): the WM_DELETE message first; the client is killed under *)
(* a server grab when the message was not sent.                            *)
kill_window(h, fail) ==
    IF h.kind # "XCB" THEN [res |-> "Ok", reqs |-> <<>>]
    ELSE LET polite == send_xevent_atom
             forced == <<"grab_server", "kill_client", "sync", "ungrab_server">>
         IN  IF polite.res # "Ok" THEN [res |-> polite.res, reqs |-> <<>>]
             ELSE IF polite.v THEN [res |-> "Ok", reqs |-> <<<<"send_event", h.id>>>>]
             ELSE [res |-> IF Failed(forced, fail) THEN "Err" ELSE "Ok",
                   reqs |-> Chain(forced, h.id, fail)]

(* The windows of a call: windows 1 and 2 and the test handle, shown or    *)
(* hidden; the lists hold one window or two different ones.                *)
UpdateTargets == {XCBHandle(1), XCBHandle(2), MockHandle}
UpdateWindowArgs == [handle : UpdateTargets, visible : BOOLEAN]
UpdateLists ==
    {<<a>> : a \in UpdateWindowArgs}
    \cup {l \in {<<a, b>> : a, b \in {c \in UpdateWindowArgs : c.handle.kind = "XCB"}} :
            l[1].handle # l[2].handle}
UpdateFails == {"none", "configure_window", "get_wm_state", "mask_off",
                "set_wm_states", "map_window", "unmap_window", "ungrab_buttons",
                "grab_mouse_clicks", "mask_on"}
WmStateReplies == {None, Some(<<>>), Some(<<WITHDRAWN_STATE>>), Some(<<NORMAL_STATE>>)}

(* wtype is the _NET_WM_WINDOW_TYPE the server holds for each window, which *)
(* neither update_window nor toggle_window_visibility reads.               *)
InitWindows ==
    /\ managed_windows = <<1, 2>>
    /\ client_list = managed_windows
    /\ mode = ModeNormal
    /\ mode_origin = <<0, 0>>
    /\ pointer_grab = FALSE
    /\ motion_event_limiter = 0
    /\ focused_window = Root
    /\ srv \in [wm_state : [{1, 2} -> WmStateReplies], notify : {TRUE},
                clickto : BOOLEAN, wtype : {<<"Normal", "Dock">>}]
    /\ last = [op |-> "new", res |-> "Ok", reqs |-> <<>>, called |-> <<>>,
               windows |-> <<>>, before |-> None]

(* A call of update_window(window). *)
UpdateWindow ==
    /\ last.res # "Panic"
    /\ \E window \in UpdateWindowArgs, fail \in UpdateFails :
         LET r == update_window(srv, window, fail) IN
         /\ srv' = r.x
         /\ last' = [op |-> "update_window", res |-> r.res, reqs |-> r.reqs,
                     called |-> <<window>>, windows |-> <<window>>,
                     before |-> IF window.handle.kind = "XCB"
                                THEN srv.wm_state[window.handle.id] ELSE None]
    /\ UNCHANGED <<lifecycle_vars, mode_vars, focused_window>>

(* DisplayServer::update_windows(windows). *)
UpdateWindows ==
    /\ last.res # "Panic"
    /\ \E windows \in UpdateLists, fail \in UpdateFails :
         LET r == update_windows(srv, windows, fail) IN
         /\ srv' = r.x
         /\ last' = [op |-> "update_windows", res |-> r.res, reqs |-> r.reqs,
                     called |-> r.called, windows |-> windows, before |-> None]
    /\ UNCHANGED <<lifecycle_vars, mode_vars, focused_window>>

(* DisplayAction::KillWindow(h). *)
KillWindow(h) ==
    /\ last.res # "Panic"
    /\ \E fail \in {"none", "grab_server", "kill_client", "sync", "ungrab_server"} :
         LET r == kill_window(h, fail) IN
         last' = [op |-> "KillWindow", res |-> r.res, reqs |-> r.reqs,
                  called |-> <<>>, windows |-> <<[handle |-> h, visible |-> TRUE]>>,
                  before |-> None]
    /\ UNCHANGED <<lifecycle_vars, mode_vars, focused_window, srv>>

NextWindows ==
    \/ UpdateWindow
    \/ UpdateWindows
    \/ \E h \in UpdateTargets : KillWindow(h)

SpecWindows == InitWindows /\ [][NextWindows]_vars

HasReq(reqs, name) == \E i \in 1..Len(reqs) : reqs[i][1] = name

(* WM_STATE of the window of an update_window call was readable. *)
Readable(l) ==
    /\ l.op = "update_window"
    /\ l.windows[1].handle.kind = "XCB"
    /\ l.before # None /\ l.before # Some(<<>>)

(* The first half of C26: a map request only for a window that should be   *)
(* visible and whose WM_STATE is not normal, an unmap request only for one *)
(* that should be hidden and whose WM_STATE is not iconic.                 *)
TogglesOnDisagreement ==
    Readable(last') =>
      /\ HasReq(last'.reqs, "map_window")
           => last'.windows[1].visible /\ last'.before # Some(<<NORMAL_STATE>>)
      /\ HasReq(last'.reqs, "unmap_window")
           => ~last'.windows[1].visible /\ last'.before # Some(<<ICONIC_STATE>>)

C27_RootMaskRestored ==
    (last.op \in {"update_window", "update_windows"} /\ last.res # "Panic")
      => srv.notify

(* C35: no update of a window of type Dock or Desktop sends it the button   *)
(* grabs of grab_mouse_clicks, under either focus behaviour.               *)
C35_NoGrabsOnDock ==
    last.op \in {"update_window", "update_windows"} =>
      \A i \in 1..Len(last.reqs) :
         last.reqs[i][1] = "grab_mouse_clicks"
           => srv.wtype[last.reqs[i][2]] \notin {"Dock", "Desktop"}

(* C29: KillWindow for a window of this backend first tries the polite     *)
(* WM_DELETE message: it returns having sent that message alone, or        *)
(* having killed the client under a server grab.                           *)
C29_KillPoliteThenForced ==
    (last.op = "KillWindow" /\ last.windows[1].handle.kind = "XCB")
      => /\ last.res # "Panic"
         /\ \/ last.reqs = <<<<"send_event", last.windows[1].handle.id>>>>
            \/ /\ Len(last.reqs) > 1
               /\ last.reqs[1][1] = "grab_server"
               /\ last.reqs[2][1] = "kill_client"

(* C30: update_windows calls update_window for every window of its list,   *)
(* also for those after a window whose update failed.                      *)
C30_EveryWindowUpdated ==
    (last.op = "update_windows" /\ last.res # "Panic")
      => last.called = last.windows

----------------------------------------------------------------------------
(* The prototype manager (manager.rs).  Here srv is the Manager: tags is   *)
(* the list of known tags, workspaces the tags each workspace shows,       *)
(* windows the managed windows with their handle and tags.  Its            *)
(* update_windows recomputes visibility and geometry, which this record    *)
(* does not carry.  focused_workspace_history is [0] throughout.           *)

MaxTags == 3           \* the known tags are 1..MaxTags

ManagerHandles == {[kind |-> "Mock", id |-> w] : w \in Win}

(* Workspace::show_tag(tag) on a workspace showing `shown`: the workspace  *)
(* shows that tag alone.  It is given one workspace and so changes no      *)
(* other.                                                                  *)
show_tag(shown, tag) == <<tag>>

(* active_workspace: the workspace at focused_workspace_history[0] = 0,    *)
(* if there is one.                                                        *)
active_workspace(workspaces) == IF Len(workspaces) > 0 THEN Some(1) ELSE None

InitManager ==
    /\ managed_windows = <<>>
    /\ client_list = <<>>
    /\ mode = ModeNormal
    /\ mode_origin = <<0, 0>>
    /\ pointer_grab = FALSE
    /\ motion_event_limiter = 0
    /\ focused_window = Root
    /\ srv = [tags |-> [i \in 1..MaxTags |-> i], workspaces |-> <<>>, windows |-> <<>>]
    /\ last = [op |-> "new", h |-> MockHandle, res |-> "Ok"]

ManagerStep(op, h, res, m) ==
    /\ srv' = m
    /\ last' = [op |-> op, h |-> h, res |-> res]
    /\ UNCHANGED <<lifecycle_vars, mode_vars, focused_window>>

(* on_new_screen: the new workspace shows the tag at the index of the      *)
(* workspace; `self.tags[tag_index]` aborts when there is no such tag.     *)
OnNewScreen ==
    /\ last.res # "Panic"
    /\ LET tag_index == Len(srv.workspaces) IN
       IF tag_index >= Len(srv.tags)
       THEN ManagerStep("on_new_screen", MockHandle, "Panic", srv)
       ELSE ManagerStep("on_new_screen", MockHandle, "Ok",
                        [srv EXCEPT !.workspaces =
                                       Append(@, show_tag(<<>>, srv.tags[tag_index + 1]))])

(* An on_new_window that pushes also a window it knows. *)
OnNewWindow_pushes_always(h) ==
    /\ last.res # "Panic"
    /\ Len(srv.windows) < MaxManaged
    /\ ManagerStep("on_new_window", h, "Ok",
                   [srv EXCEPT !.windows = Append(@, [handle |-> h, tags |-> <<>>])])

(* on_new_window(a_window): nothing for a handle the manager knows; else   *)
(* the window takes the tags of the active workspace and is pushed.        *)
OnNewWindow(h) ==
    /\ last.res # "Panic"
    /\ Len(srv.windows) < MaxManaged
    /\ IF \E i \in 1..Len(srv.windows) : srv.windows[i].handle = h
       THEN ManagerStep("on_new_window", h, "Ok", srv)
       ELSE LET ws == active_workspace(srv.workspaces)
                tags == IF ws # None THEN srv.workspaces[ws[1]] ELSE <<>>
            IN  ManagerStep("on_new_window", h, "Ok",
                            [srv EXCEPT !.windows = Append(@, [handle |-> h,
                                                               tags |-> tags])])

(* on_destroy_window(handle): the first window with that handle is         *)
(* removed.                                                                *)
OnDestroyWindow(h) ==
    /\ last.res # "Panic"
    /\ LET at == {i \in 1..Len(srv.windows) : srv.windows[i].handle = h} IN
       IF at = {} THEN ManagerStep("on_destroy_window", h, "Ok", srv)
       ELSE LET i == CHOOSE k \in at : \A j \in at : k <= j IN
            ManagerStep("on_destroy_window", h, "Ok",
                        [srv EXCEPT !.windows = SubSeq(@, 1, i - 1)
                                                \o SubSeq(@, i + 1, Len(@))])

(* Command::GotoTag(tag), goto_tags([tag]): the active workspace shows the *)
(* tag; without an active workspace nothing happens.                       *)
GotoTags(tag) ==
    /\ last.res # "Panic"
    /\ LET ws == active_workspace(srv.workspaces) IN
       IF ws = None THEN ManagerStep("goto_tags", MockHandle, "Ok", srv)
       ELSE ManagerStep("goto_tags", MockHandle, "Ok",
                        [srv EXCEPT !.workspaces[ws[1]] = show_tag(@, tag)])

NextManager ==
    \/ OnNewScreen
    \/ \E h \in ManagerHandles : OnNewWindow(h)
    \/ \E h \in ManagerHandles : OnDestroyWindow(h)
    \/ \E tag \in 1..MaxTags : GotoTags(tag)

SpecManager == InitManager /\ [][NextManager]_vars

(* C24: no two workspaces show the same tag.                               *)
C24_NoSharedTag ==
    \A i, j \in 1..Len(srv.workspaces) :
       i # j => \A a \in 1..Len(srv.workspaces[i]) :
                   ~Contains(srv.workspaces[j], srv.workspaces[i][a])

WindowHandles(windows) == [i \in 1..Len(windows) |-> windows[i].handle]

----------------------------------------------------------------------------
(* Stacking order.  The server keeps the children of the root in a stack,  *)
(* written bottom-most first as query_tree replies it.                     *)

(* get_all_windows().unwrap_or_default(): the children of every root, or   *)
(* the empty list when the query fails.                                    *)
get_all_windows(stack, failed) == IF failed THEN <<>> ELSE stack

(* from_set_window_order builds fullscreen ++ unmanaged ++ windows, where   *)
(* unmanaged keeps the non-root server windows h for which                 *)
(* !windows.contains(h) || !fullscreen.contains(h).                        *)
set_window_order_list(stack, fullscreen, windows, failed) ==
    LET not_root(w) == w # Root
        handles == [i \in 1..Len(SelectSeq(get_all_windows(stack, failed), not_root))
                      |-> XCBHandle(SelectSeq(get_all_windows(stack, failed), not_root)[i])]
        keep(h) == ~Contains(windows, h) \/ ~Contains(fullscreen, h)
        unmanaged == SelectSeq(handles, keep)
    IN  fullscreen \o unmanaged \o windows

(* The server's ConfigureWindow with a sibling and stack mode Below: the    *)
(* window goes directly below the sibling; a sibling that is not another   *)
(* child of the root is an error and the stack stays.                      *)
configure_below(stack, w, sibling) ==
    IF ~Contains(stack, w) \/ ~Contains(stack, sibling) \/ sibling = w THEN stack
    ELSE LET not_w(v) == v # w
             rest == SelectSeq(stack, not_w)
             at == CHOOSE i \in 1..Len(rest) : rest[i] = sibling
         IN  SubSeq(rest, 1, at - 1) \o <<w>> \o SubSeq(rest, at, Len(rest))

(* restack(handles): for each handle of this backend in order, one          *)
(* configure_window with sibling h - 1 and stack mode Below; fail_at is    *)
(* the position of the request whose sending fails (0: none).              *)
RECURSIVE restack(_, _, _, _)
restack(stack, handles, fail_at, sent) ==
    IF handles = <<>> THEN [stack |-> stack, res |-> "Ok", reqs |-> sent]
    ELSE LET h == Head(handles) IN
         IF h.kind # "XCB" THEN restack(stack, Tail(handles), fail_at, sent)
         ELSE IF fail_at = Len(sent) + 1
         THEN [stack |-> stack, res |-> "Err", reqs |-> sent]
         ELSE restack(configure_below(stack, h.id, h.id - 1), Tail(handles), fail_at,
                      Append(sent, <<h.id, h.id - 1>>))

(* from_set_window_order: the list, then restack; it returns no event.     *)
from_set_window_order(stack, fullscreen, windows, failed, fail_at) ==
    LET all == set_window_order_list(stack, fullscreen, windows, failed)
        r == restack(stack, all, fail_at, <<>>)
    IN  [stack |-> r.stack, res |-> r.res, reqs |-> r.reqs, all |-> all]

(* The lists the manager hands over: each names a handle once, and no      *)
(* handle is in both.                                                      *)
OrderLists ==
    {l \in SeqsUpTo(Handles, NumWindows) :
        \A i, j \in 1..Len(l) : i # j => l[i] # l[j]}

Stacks == {l \in OrderLists : Len(l) = NumWindows /\ \A i \in 1..Len(l) : l[i].kind = "XCB"}

InitOrder ==
    /\ managed_windows = <<>>
    /\ client_list = <<>>
    /\ mode = ModeNormal
    /\ mode_origin = <<0, 0>>
    /\ pointer_grab = FALSE
    /\ motion_event_limiter = 0
    /\ focused_window = Root
    /\ srv \in {[stack |-> [i \in 1..NumWindows |-> l[i].id]] : l \in Stacks}
    /\ last = [op |-> "new", res |-> "Ok", fullscreen |-> <<>>, windows |-> <<>>,
               all |-> <<>>, reqs |-> <<>>, before |-> <<>>, queried |-> TRUE]

(* DisplayAction::SetWindowOrder(fullscreen, windows). *)
SetWindowOrder ==
    \E fullscreen \in OrderLists, windows \in OrderLists,
       failed \in BOOLEAN, fail_at \in 0..1 :
       /\ \A i \in 1..Len(fullscreen) : ~Contains(windows, fullscreen[i])
       /\ LET r == from_set_window_order(srv.stack, fullscreen, windows, failed,
                                         fail_at) IN
          /\ srv' = [srv EXCEPT !.stack = r.stack]
          /\ last' = [op |-> "SetWindowOrder", res |-> r.res,
                      fullscreen |-> fullscreen, windows |-> windows,
                      all |-> r.all, reqs |-> r.reqs, before |-> srv.stack,
                      queried |-> ~failed]
       /\ UNCHANGED <<lifecycle_vars, mode_vars, focused_window>>

NextOrder == SetWindowOrder

SpecOrder == InitOrder /\ [][NextOrder]_vars

(* The non-root server windows that are in neither list, in server order.  *)
Unlisted(stack, fullscreen, windows) ==
    LET free(w) == /\ w # Root
                   /\ ~Contains(fullscreen, XCBHandle(w))
                   /\ ~Contains(windows, XCBHandle(w))
        ws == SelectSeq(stack, free)
    IN  [i \in 1..Len(ws) |-> XCBHandle(ws[i])]

DirectlyBelow(stack, w, v) ==
    \E i \in 1..Len(stack) - 1 : stack[i] = w /\ stack[i + 1] = v

(* C32: SetWindowOrder restacks fullscreen ++ unlisted ++ windows, no       *)
(* window twice, and afterwards each window of this backend in the list is *)
(* directly below its predecessor.                                         *)
C32_RestackList ==
    (last.op = "SetWindowOrder" /\ last.res = "Ok" /\ last.queried) =>
      /\ last.all = last.fullscreen
                      \o Unlisted(last.before, last.fullscreen, last.windows)
                      \o last.windows
      /\ \A i, j \in 1..Len(last.all) : i # j => last.all[i] # last.all[j]
      /\ \A i \in 2..Len(last.all) :
           (last.all[i].kind = "XCB" /\ last.all[i - 1].kind = "XCB")
             => DirectlyBelow(srv.stack, last.all[i].id, last.all[i - 1].id)

----------------------------------------------------------------------------
(* Window states.  srv.states is the reply of the server for the            *)
(* _NET_WM_STATE property of window 1: absent, or its atom list.           *)

WindowStates == {"Modal", "Sticky", "MaximizedVert", "MaximizedHorz", "Shaded",
                 "SkipTaskbar", "SkipPager", "Hidden", "Fullscreen", "Above", "Below"}

(* The match of from_set_state on the WindowState. *)
state_atom(window_state) ==
    CASE window_state = "Modal" -> "_NET_WM_STATE_MODAL"
      [] window_state = "Sticky" -> "_NET_WM_STATE_STICKY"
      [] window_state = "MaximizedVert" -> "_NET_WM_STATE_MAXIMIZED_VERT"
      [] window_state = "MaximizedHorz" -> "_NET_WM_STATE_MAXIMIZED_HORZ"
      [] window_state = "Shaded" -> "_NET_WM_STATE_SHADED"
      [] window_state = "SkipTaskbar" -> "_NET_WM_STATE_SKIP_TASKBAR"
      [] window_state = "SkipPager" -> "_NET_WM_STATE_SKIP_PAGER"
      [] window_state = "Hidden" -> "_NET_WM_STATE_HIDDEN"
      [] window_state = "Fullscreen" -> "_NET_WM_STATE_FULLSCREEN"
      [] window_state = "Above" -> "_NET_WM_STATE_ABOVE"
      [] window_state = "Below" -> "_NET_WM_STATE_BELOW"

(* set_state(handle, toggle_to, atom): the list is read, the atom pushed   *)
(* unless present (or its first occurrence removed), and the list written  *)
(* back; the result of the write is dropped.  It returns the property and  *)
(* the result.                                                             *)
set_state(reply, handle, toggle_to, atom, fail) ==
    IF handle.kind # "XCB" THEN [states |-> reply, res |-> "Ok"]
    ELSE LET got == get_window_states_atoms(reply, fail = "get_window_states_atoms") IN
         IF got.res # "Ok" THEN [states |-> reply, res |-> "Err"]
         ELSE LET states == got.v
                  present == Contains(states, atom)
                  index == CHOOSE i \in 1..Len(states) :
                              /\ states[i] = atom
                              /\ \A j \in 1..(i - 1) : states[j] # atom
                  changed == IF toggle_to THEN Append(states, atom)
                             ELSE SubSeq(states, 1, index - 1)
                                  \o SubSeq(states, index + 1, Len(states))
              IN
              IF toggle_to = present THEN [states |-> reply, res |-> "Ok"]
              ELSE [states |-> IF fail = "set_window_states_atoms" THEN reply
                               ELSE Some(changed),
                    res |-> "Ok"]

(* from_set_state: the atom of the state, then set_state. *)
from_set_state(reply, handle, toggle_to, window_state, fail) ==
    set_state(reply, handle, toggle_to, state_atom(window_state), fail)

SetStateFails == {"none", "get_window_states_atoms", "set_window_states_atoms"}

InitStates ==
    /\ managed_windows = <<1>>
    /\ client_list = <<1>>
    /\ mode = ModeNormal
    /\ mode_origin = <<0, 0>>
    /\ pointer_grab = FALSE
    /\ motion_event_limiter = 0
    /\ focused_window = Root
    /\ srv \in {[states |-> r] : r \in StateReplies}
    /\ last = [op |-> "new", res |-> "Ok", h |-> MockHandle, toggle_to |-> FALSE,
               state |-> "Modal", v |-> <<>>, before |-> None]

(* DisplayAction::SetState(h, toggle_to, window_state). *)
SetState(h) ==
    \E toggle_to \in BOOLEAN, window_state \in WindowStates, fail \in SetStateFails :
       /\ toggle_to /\ srv.states # None => Len(srv.states[1]) < MaxStates
       /\ LET r == from_set_state(srv.states, h, toggle_to, window_state, fail) IN
          /\ srv' = [srv EXCEPT !.states = r.states]
          /\ last' = [op |-> "SetState", res |-> r.res, h |-> h,
                      toggle_to |-> toggle_to, state |-> window_state, v |-> <<>>,
                      before |-> srv.states]
       /\ UNCHANGED <<lifecycle_vars, mode_vars, focused_window>>

(* A call of get_window_states(1). *)
GetWindowStates ==
    \E failed \in BOOLEAN :
       LET r == get_window_states(srv.states, failed) IN
       /\ last' = [op |-> "get_window_states", res |-> r.res, h |-> XCBHandle(1),
                   toggle_to |-> FALSE, state |-> "Modal",
                   v |-> IF r.res = "Ok" THEN r.v ELSE <<>>, before |-> srv.states]
       /\ UNCHANGED <<lifecycle_vars, mode_vars, focused_window, srv>>

NextStates ==
    \/ \E h \in {XCBHandle(1), MockHandle} : SetState(h)
    \/ GetWindowStates

SpecStates == InitStates /\ [][NextStates]_vars

(* C33: get_window_states decodes the atom of each of the eleven states as *)
(* that state, in list order, and drops every other atom.                  *)
C33_StatesDecodeLosslessly ==
    (last.op = "get_window_states" /\ last.res = "Ok") =>
      LET known(a) == \E st \in WindowStates : state_atom(st) = a
          atoms == SelectSeq(last.before[1], known)
      IN  /\ Len(last.v) = Len(atoms)
          /\ \A i \in 1..Len(atoms) : state_atom(last.v[i]) = atoms[i]

----------------------------------------------------------------------------
(* Property-notify dispatch.  Atoms are 32-bit numbers: the predefined     *)
(* ones have the values of the protocol, the others are interned by the    *)
(* server at start-up (srv.atoms) with values above the predefined ones.   *)

WM_HINTS == 35
WM_NAME == 39
WM_NORMAL_HINTS == 40
WM_TRANSIENT_FOR == 68

(* `event.atom as u8`: the low eight bits. *)
as_u8(atom) == atom % 256

(* event_translate_property_notify::from_event, by the branch that handles *)
(* the event: "None" is the early return, "Err" a failed get_xatom_name,   *)
(* "ignored" the end of the default arm.  is_dock is the answer of         *)
(* get_window_type(window) = Dock.                                         *)
property_notify_branch(mw, atoms, window, deleted, atom, is_dock, failed) ==
    IF window = Root \/ deleted \/ ~Contains(mw, window) THEN "None"
    ELSE IF failed THEN "Err"
    ELSE CASE as_u8(atom) = WM_TRANSIENT_FOR -> "WM_TRANSIENT_FOR"
           [] as_u8(atom) = WM_NORMAL_HINTS -> "WM_NORMAL_HINTS"
           [] as_u8(atom) = WM_HINTS -> "WM_HINTS"
           [] as_u8(atom) = WM_NAME -> "WM_NAME"
           [] OTHER ->
                IF atom = atoms._NET_WM_NAME THEN "_NET_WM_NAME"
                ELSE IF atom = atoms._NET_WM_STRUT
                        \/ (atom = atoms._NET_WM_STRUT_PARTIAL /\ is_dock)
                THEN "_NET_WM_STRUT"
                ELSE IF atom = atoms._NET_WM_STATE THEN "_NET_WM_STATE"
                ELSE "ignored"

(* The values the server may have handed out for the interned atoms. *)
InternedAtoms ==
    {[_NET_WM_NAME |-> a, _NET_WM_STATE |-> b,
      _NET_WM_STRUT |-> 302, _NET_WM_STRUT_PARTIAL |-> 303] :
        a \in {300, 256 + WM_NAME}, b \in {301, 256 + WM_HINTS, 512 + WM_TRANSIENT_FOR}}

InitProperty ==
    /\ managed_windows = <<1>>
    /\ client_list = <<1>>
    /\ mode = ModeNormal
    /\ mode_origin = <<0, 0>>
    /\ pointer_grab = FALSE
    /\ motion_event_limiter = 0
    /\ focused_window = Root
    /\ srv \in {[atoms |-> a] : a \in InternedAtoms}
    /\ last = [op |-> "new", window |-> Root, atom |-> 0, deleted |-> FALSE,
               branch |-> "None"]

(* A PropertyNotify event for a window and an atom. *)
PropertyNotify(window) ==
    \E atom \in {WM_HINTS, WM_NAME, WM_NORMAL_HINTS, WM_TRANSIENT_FOR, 69,
                 srv.atoms._NET_WM_NAME, srv.atoms._NET_WM_STATE,
                 srv.atoms._NET_WM_STRUT, srv.atoms._NET_WM_STRUT_PARTIAL},
       deleted \in BOOLEAN, is_dock \in BOOLEAN, failed \in BOOLEAN :
       /\ last' = [op |-> "PropertyNotify", window |-> window, atom |-> atom,
                   deleted |-> deleted,
                   branch |-> property_notify_branch(managed_windows, srv.atoms, window,
                                                     deleted, atom, is_dock, failed)]
       /\ UNCHANGED <<lifecycle_vars, mode_vars, focused_window, srv>>

NextProperty == \E window \in {Root} \cup Win : PropertyNotify(window)

SpecProperty == InitProperty /\ [][NextProperty]_vars

(* C39: a notification for an atom that is none of the four predefined     *)
(* ones is never handled by the branch of one of them.                     *)
C39_DispatchByFullAtom ==
    (last.op = "PropertyNotify"
     /\ last.atom \notin {WM_HINTS, WM_NAME, WM_NORMAL_HINTS, WM_TRANSIENT_FOR})
      => last.branch \notin {"WM_HINTS", "WM_NAME", "WM_NORMAL_HINTS",
                             "WM_TRANSIENT_FOR"}

----------------------------------------------------------------------------
(* setup_window of the x11rb adapter, on the values its getters hand it:   *)
(* attrs is the reply of get_window_attrs (None when it failed),           *)
(* sizing_hint and wm_hint are options, actions is a list.                 *)

x11rb_setup_window(mw, window, attrs, type, actions, sizing_hint, wm_hint) ==
    IF attrs = None \/ attrs[1].override_redirect \/ Contains(mw, window)
    THEN NoEvent
    ELSE LET can_resize == Contains(actions, "_NET_WM_ACTION_RESIZE") IN
         [k |-> "WindowCreate",
          window |-> [handle |-> [kind |-> "X11rb", id |-> window],
                      type |-> type,
                      can_resize |-> IF sizing_hint = None THEN can_resize
                                     ELSE can_resize_of(type, sizing_hint[1], can_resize),
                      never_focus |-> IF wm_hint = None \/ wm_hint[1].input = None
                                      THEN FALSE
                                      ELSE wm_hint[1].input[1]]]

(* The x11rb setup_window for the window the server describes in srv, with *)
(* the values the XCB getters read.                                        *)
X11rbSetup ==
    x11rb_setup_window(managed_windows, srv.w,
                       Some([override_redirect |-> srv.override_redirect]),
                       SrvType, srv.actions[1],
                       Some(get_hint_sizing_as_xyhw(srv.hint, FALSE).v),
                       Some([input |-> srv.input]))

(* C40: for the same window, all of whose reads succeed, both adapters     *)
(* yield a WindowCreate or both none, with equal can_resize and            *)
(* never_focus.                                                            *)
C40_AdaptersAgree ==
    (last.op = "setup_window" /\ SrvReadsSucceed) =>
      /\ (last.event.k = "WindowCreate") <=> (X11rbSetup.k = "WindowCreate")
      /\ (last.event.k = "WindowCreate" /\ X11rbSetup.k = "WindowCreate")
           => /\ last.event.window.can_resize = X11rbSetup.window.can_resize
              /\ last.event.window.never_focus = X11rbSetup.window.never_focus

====
